---- MODULE Spec2Model ----
(***************************************************************************)
(* Verification model of the plugin-automation scripts: the command, hook, *)
(* skill and agent migrators, the command and skill validators, the bulk   *)
(* audits and the backup-then-write path of the migrate-* and update-*     *)
(* scripts.                                                                *)
(*                                                                         *)
(* Text whose characters decide a branch (argument hints, artifact names)  *)
(* is a sequence of one-character strings.  Text that the code only        *)
(* compares with literals (model selectors, tool names, finding messages)  *)
(* is a TLA+ string.  A Python dict is a function whose DOMAIN is the set  *)
(* of keys present.                                                        *)
(***************************************************************************)
EXTENDS Integers, Sequences, FiniteSets, TLC

VARIABLES
    frontmatter,    \* migrate-command: the metadata mapping being migrated
    all_changes,    \* migrate-command: change list of the last apply_all_migrations
    runs,           \* migrate-command: number of runs applied so far
    hooks_config,   \* migrate-hook: the working copy of the hooks.json tree
    hook_changes,   \* migrate-hook: main's all_changes of the last run
    hook_runs,      \* migrate-hook: number of full runs applied so far
    new_frontmatter,  \* migrate-agent: the agent's metadata mapping
    new_body,         \* migrate-agent: the agent's body
    agent_changes,    \* migrate-agent: change list of the last run
    agent_runs,       \* migrate-agent: number of runs applied so far
    artifact,         \* validators: the command file or skill under examination
    audit_result,     \* validators: what the bulk audit's validator returned for it
    validate_result,  \* validators: what validate-command.py returned for it
    migration,        \* validators: what the artifact's migrator made of its metadata
    batch,            \* bulk audit: the files found, in processing order
    results,          \* bulk audit: main's results, one entry per file processed
    audit_pc,         \* bulk audit: "scan", "done" or "crashed"
    exit_code,        \* bulk audit: the process exit code once it has ended
    script,           \* writer: which migrate-* / update-* script is running
    platform,         \* writer: "posix" or "windows" (os.linesep)
    prior,            \* writer: content of the artifact path when the script started
    target,           \* writer: content of the artifact path
    backup,           \* writer: content of the backup path
    writer_pc,        \* writer: the script's position in its backup-and-write tail
    run,              \* migration run: [script, dry_run, stem], the invocation
    disk_file,        \* migration run: the artifact file, [exists, content]
    disk_backup,      \* migration run: the backup file, [exists, content]
    pending,          \* migration run: the migrated metadata held in memory
    run_changes,      \* migration run: the change list of the migration
    confirmed,        \* migration run: the user answered 'y' at the prompt
    run_pc,           \* migration run: "start", "prompt", "persist" or "exit"
    run_exit,         \* migration run: the process exit code
    hooks_files,      \* hooks audit: the hooks.json files found, in sorted order
    has_validator,    \* hooks audit: validate-hooks.py was found
    audited,          \* hooks audit: number of files the loop has been through
    buckets,          \* hooks audit: main's results, the four lists of files
    hooks_pc,         \* hooks audit: "scan", "done"
    hooks_exit,       \* hooks audit: the process exit code
    enhanced,         \* enhance-command: the command file analysed
    report,           \* enhance-command: (score, findings) of each analysis
    enhance_pc,       \* enhance-command: "start", "exit" or "crashed"
    enhance_exit,     \* enhance-command: the process exit code
    cache,            \* research cache: the entry files, keyed by <<category, cache_id>>
    today,            \* research cache: the current day
    cache_reply,      \* research cache: what the last command returned
    cache_ops,        \* research cache: number of commands run so far
    probe,            \* detect-backend: what the machine answers to each probe
    backend_args,     \* detect-backend: the --check argument, "" when absent
    detection,        \* detect-backend: the result printed
    backend_exit,     \* detect-backend: the process exit code
    backend_pc,       \* detect-backend: "start" or "exit"
    upd_disk,         \* update-hook: the hooks.json file, [status, config]
    upd_backup,       \* update-hook: the .json.backup file, <<>> while absent
    upd_locals,       \* update-hook: the locals of main when it ended
    upd_pc,           \* update-hook: "start" or "exit"
    upd_exit,         \* update-hook: the process exit code
    race_platform,    \* concurrent migrate-command: the operating system the two processes run on
    race_original,    \* concurrent migrate-command: the command file before either process started
    race_file,        \* concurrent migrate-command: what is at the command file path
    race_backup,      \* concurrent migrate-command: what is at the .md.bak path
    race_locals,      \* concurrent migrate-command: each process: its local variables
    race_pc           \* concurrent migrate-command: each process: the statement it is at

cmdVars == <<frontmatter, all_changes, runs>>
hookVars == <<hooks_config, hook_changes, hook_runs>>
agentVars == <<new_frontmatter, new_body, agent_changes, agent_runs>>
checkVars == <<artifact, audit_result, validate_result, migration>>
batchVars == <<batch, results, audit_pc, exit_code>>
writerVars == <<script, platform, prior, target, backup, writer_pc>>
runVars ==
    <<run, disk_file, disk_backup, pending, run_changes, confirmed, run_pc, run_exit>>
hooksAuditVars == <<hooks_files, has_validator, audited, buckets, hooks_pc, hooks_exit>>
enhanceVars == <<enhanced, report, enhance_pc, enhance_exit>>
cacheVars == <<cache, today, cache_reply, cache_ops>>
backendVars == <<probe, backend_args, detection, backend_exit, backend_pc>>
updateVars == <<upd_disk, upd_backup, upd_locals, upd_pc, upd_exit>>
raceVars == <<race_platform, race_original, race_file, race_backup, race_locals, race_pc>>
vars ==
    <<cmdVars, hookVars, agentVars, checkVars, batchVars, writerVars, runVars,
      hooksAuditVars, enhanceVars,
      cacheVars,
      backendVars,
      updateVars,
      raceVars>>

\* Parts of the state a specification does not exercise stay at these values.
CmdIdle == frontmatter = <<>> /\ all_changes = <<>> /\ runs = 0
HookIdle == hooks_config = <<>> /\ hook_changes = <<>> /\ hook_runs = 0
AgentIdle ==
    new_frontmatter = <<>> /\ new_body = <<>> /\ agent_changes = <<>> /\ agent_runs = 0
CheckIdle ==
    artifact = <<>> /\ audit_result = <<>> /\ validate_result = <<>> /\ migration = <<>>
BatchIdle == batch = <<>> /\ results = <<>> /\ audit_pc = "" /\ exit_code = 0
WriterIdle ==
    /\ script = "" /\ platform = "" /\ writer_pc = ""
    /\ prior = <<>> /\ target = <<>> /\ backup = <<>>
RunIdle ==
    /\ run = <<>> /\ disk_file = <<>> /\ disk_backup = <<>> /\ pending = <<>>
    /\ run_changes = <<>> /\ confirmed = FALSE /\ run_pc = "" /\ run_exit = 0
HooksAuditIdle ==
    hooks_files = <<>> /\ has_validator = FALSE /\ audited = 0 /\ buckets = <<>> /\ hooks_pc = "" /\ hooks_exit = 0
EnhanceIdle ==
    enhanced = <<>> /\ report = <<>> /\ enhance_pc = "" /\ enhance_exit = 0
CacheIdle ==
    cache = <<>> /\ today = 0 /\ cache_reply = <<>> /\ cache_ops = 0
BackendIdle ==
    probe = <<>> /\ backend_args = <<>> /\ detection = <<>> /\ backend_exit = 0 /\ backend_pc = ""
UpdateIdle ==
    upd_disk = <<>> /\ upd_backup = <<>> /\ upd_locals = <<>> /\ upd_pc = "" /\ upd_exit = 0
RaceIdle ==
    race_platform = "" /\ race_original = [exists |-> FALSE] /\ race_file = [exists |-> FALSE] /\ race_backup = [exists |-> FALSE] /\ race_locals = <<>> /\ race_pc = <<>>

\* Everything but one part of the state.
exceptCmd == <<hookVars, agentVars, checkVars, batchVars, writerVars, runVars, hooksAuditVars, enhanceVars, cacheVars, backendVars, updateVars, raceVars>>
exceptHook == <<cmdVars, agentVars, checkVars, batchVars, writerVars, runVars, hooksAuditVars, enhanceVars, cacheVars, backendVars, updateVars, raceVars>>
exceptAgent == <<cmdVars, hookVars, checkVars, batchVars, writerVars, runVars, hooksAuditVars, enhanceVars, cacheVars, backendVars, updateVars, raceVars>>
exceptCheck == <<cmdVars, hookVars, agentVars, batchVars, writerVars, runVars, hooksAuditVars, enhanceVars, cacheVars, backendVars, updateVars, raceVars>>
exceptBatch == <<cmdVars, hookVars, agentVars, checkVars, writerVars, runVars, hooksAuditVars, enhanceVars, cacheVars, backendVars, updateVars, raceVars>>
exceptWriter == <<cmdVars, hookVars, agentVars, checkVars, batchVars, runVars, hooksAuditVars, enhanceVars, cacheVars, backendVars, updateVars, raceVars>>
ExceptCmdIdle == HookIdle /\ AgentIdle /\ CheckIdle /\ BatchIdle /\ WriterIdle /\ RunIdle /\ HooksAuditIdle /\ EnhanceIdle /\ CacheIdle /\ BackendIdle /\ UpdateIdle /\ RaceIdle
ExceptHookIdle == CmdIdle /\ AgentIdle /\ CheckIdle /\ BatchIdle /\ WriterIdle /\ RunIdle /\ HooksAuditIdle /\ EnhanceIdle /\ CacheIdle /\ BackendIdle /\ UpdateIdle /\ RaceIdle
ExceptAgentIdle == CmdIdle /\ HookIdle /\ CheckIdle /\ BatchIdle /\ WriterIdle /\ RunIdle /\ HooksAuditIdle /\ EnhanceIdle /\ CacheIdle /\ BackendIdle /\ UpdateIdle /\ RaceIdle
ExceptCheckIdle == CmdIdle /\ HookIdle /\ AgentIdle /\ BatchIdle /\ WriterIdle /\ RunIdle /\ HooksAuditIdle /\ EnhanceIdle /\ CacheIdle /\ BackendIdle /\ UpdateIdle /\ RaceIdle
ExceptBatchIdle == CmdIdle /\ HookIdle /\ AgentIdle /\ CheckIdle /\ WriterIdle /\ RunIdle /\ HooksAuditIdle /\ EnhanceIdle /\ CacheIdle /\ BackendIdle /\ UpdateIdle /\ RaceIdle
exceptRun == <<cmdVars, hookVars, agentVars, checkVars, batchVars, writerVars, hooksAuditVars, enhanceVars, cacheVars, backendVars, updateVars, raceVars>>
ExceptRunIdle ==
    CmdIdle /\ HookIdle /\ AgentIdle /\ CheckIdle /\ BatchIdle /\ WriterIdle /\ HooksAuditIdle /\ EnhanceIdle /\ CacheIdle /\ BackendIdle /\ UpdateIdle /\ RaceIdle
ExceptWriterIdle == CmdIdle /\ HookIdle /\ AgentIdle /\ CheckIdle /\ BatchIdle /\ RunIdle /\ HooksAuditIdle /\ EnhanceIdle /\ CacheIdle /\ BackendIdle /\ UpdateIdle /\ RaceIdle

exceptHooksAudit == <<cmdVars, hookVars, agentVars, checkVars, batchVars, writerVars, runVars, enhanceVars, cacheVars, backendVars, updateVars, raceVars>>
ExceptHooksAuditIdle == CmdIdle /\ HookIdle /\ AgentIdle /\ CheckIdle /\ BatchIdle /\ WriterIdle /\ RunIdle /\ EnhanceIdle /\ CacheIdle /\ BackendIdle /\ UpdateIdle /\ RaceIdle

exceptEnhance == <<cmdVars, hookVars, agentVars, checkVars, batchVars, writerVars, runVars, hooksAuditVars, cacheVars, backendVars, updateVars, raceVars>>
ExceptEnhanceIdle == CmdIdle /\ HookIdle /\ AgentIdle /\ CheckIdle /\ BatchIdle /\ WriterIdle /\ RunIdle /\ HooksAuditIdle /\ CacheIdle /\ BackendIdle /\ UpdateIdle /\ RaceIdle

exceptCache == <<cmdVars, hookVars, agentVars, checkVars, batchVars, writerVars, runVars, hooksAuditVars, enhanceVars, backendVars, updateVars, raceVars>>
ExceptCacheIdle == CmdIdle /\ HookIdle /\ AgentIdle /\ CheckIdle /\ BatchIdle /\ WriterIdle /\ RunIdle /\ HooksAuditIdle /\ EnhanceIdle /\ BackendIdle /\ UpdateIdle /\ RaceIdle

exceptBackend == <<cmdVars, hookVars, agentVars, checkVars, batchVars, writerVars, runVars, hooksAuditVars, enhanceVars, cacheVars, updateVars, raceVars>>
ExceptBackendIdle == CmdIdle /\ HookIdle /\ AgentIdle /\ CheckIdle /\ BatchIdle /\ WriterIdle /\ RunIdle /\ HooksAuditIdle /\ EnhanceIdle /\ CacheIdle /\ UpdateIdle /\ RaceIdle

exceptUpdate == <<cmdVars, hookVars, agentVars, checkVars, batchVars, writerVars, runVars, hooksAuditVars, enhanceVars, cacheVars, backendVars, raceVars>>
ExceptUpdateIdle == CmdIdle /\ HookIdle /\ AgentIdle /\ CheckIdle /\ BatchIdle /\ WriterIdle /\ RunIdle /\ HooksAuditIdle /\ EnhanceIdle /\ CacheIdle /\ BackendIdle /\ RaceIdle

exceptRace == <<cmdVars, hookVars, agentVars, checkVars, batchVars, writerVars, runVars, hooksAuditVars, enhanceVars, cacheVars, backendVars, updateVars>>
ExceptRaceIdle == CmdIdle /\ HookIdle /\ AgentIdle /\ CheckIdle /\ BatchIdle /\ WriterIdle /\ RunIdle /\ HooksAuditIdle /\ EnhanceIdle /\ CacheIdle /\ BackendIdle /\ UpdateIdle

(***************************************************************************)
(* Bounds of the model.                                                    *)
(***************************************************************************)
MaxHintLen == 2      \* longest argument-hint string drawn as input
MaxHintItems == 2    \* longest argument-hint YAML list drawn as input
MaxRuns == 2         \* successive runs of a migrator on the same artifact
MaxGroups == 2       \* hook groups listed under one event
MaxNameTail == 2     \* characters drawn freely at the end of an agent name
MaxTools == 3        \* entries of an agent's tools string
MaxStemLen == 2      \* characters drawn freely at the end of a file or directory name
MaxBatch == 3        \* files found by one bulk audit

(***************************************************************************)
(* Generic helpers.                                                        *)
(***************************************************************************)
SeqsUpTo(S, n) == UNION {[1..k -> S] : k \in 0..n}

\* dict helpers: key removal and key assignment
DictDel(d, k) == [x \in (DOMAIN d) \ {k} |-> d[x]]
DictSet(d, k, v) == [x \in (DOMAIN d) \cup {k} |-> IF x = k THEN v ELSE d[x]]

RECURSIVE Concat(_)
\* the concatenation of a sequence of sequences
Concat(ss) == IF ss = <<>> THEN <<>> ELSE Head(ss) \o Concat(Tail(ss))

RECURSIVE JoinWith(_, _)
\* sep.join(items) on character sequences
JoinWith(sep, items) ==
    IF items = <<>> THEN <<>>
    ELSE IF Len(items) = 1 THEN Head(items)
    ELSE Head(items) \o sep \o JoinWith(sep, Tail(items))

(***************************************************************************)
(* migrate-command.py: the command migrator.                               *)
(***************************************************************************)
\* Characters that decide the argument-hint rule: the opening bracket that
\* startswith('[') looks for, the closing bracket and space the rule itself
\* inserts, and one ordinary character.
HintChars == {"[", "]", "a"}
HintStrings == SeqsUpTo(HintChars, MaxHintLen)
HintItems == {<<>>, <<"[">>, <<"a">>}

\* An argument-hint value as YAML decodes it: a string or a list of strings.
HintStr(s) == [isList |-> FALSE, str |-> s, list |-> <<>>]
HintList(l) == [isList |-> TRUE, str |-> <<>>, list |-> l]
HintValues ==
    {HintStr(s) : s \in HintStrings}
        \cup {HintList(l) : l \in SeqsUpTo(HintItems, MaxHintItems)}

ModelValues ==
    {"haiku", "sonnet", "opus", "inherit",
     "claude-haiku-4-5", "claude-sonnet-4-5", "claude-opus-4-5", "gpt-4"}

\* A tools value as YAML decodes it: a comma-separated string or a list;
\* items are the entries in order.
ToolStr(items) == [isList |-> FALSE, items |-> items]
ToolList(items) == [isList |-> TRUE, items |-> items]
ToolsValues == {ToolStr(<<"Read", "Write">>), ToolStr(<<"Bash">>)}
AllowedToolsValues ==
    {ToolStr(<<"Read">>), ToolStr(<<"Bash", "Read">>), ToolStr(<<"BashOutput">>),
     ToolStr(<<"Shell">>), ToolList(<<"Bash", "Read">>)}

\* The description "fix bug".
FixBug == <<"f", "i", "x", " ", "b", "u", "g">>

\* A table that names the model families without their version.
alias_map_unversioned ==
    [haiku |-> "claude-haiku", sonnet |-> "claude-sonnet", opus |-> "claude-opus"]

alias_map ==
    [haiku |-> "claude-haiku-4-5",
     sonnet |-> "claude-sonnet-4-5",
     opus |-> "claude-opus-4-5"]

migrate_short_alias_to_version_alias(fm) ==
    IF "model" \notin DOMAIN fm
    THEN [frontmatter |-> fm, changes |-> <<>>]
    ELSE IF fm["model"] \in DOMAIN alias_map
    THEN [frontmatter |-> DictSet(fm, "model", alias_map[fm["model"]]),
          changes |-> <<"Migrated model">>]
    ELSE IF fm["model"] = "inherit"
    THEN [frontmatter |-> DictDel(fm, "model"),
          changes |-> <<"Removed model: 'inherit'">>]
    ELSE [frontmatter |-> fm, changes |-> <<>>]

\* str.startswith('[')
StartsWithBracket(s) == Len(s) > 0 /\ s[1] = "["

migrate_argument_hint_format(fm) ==
    IF "argument-hint" \notin DOMAIN fm
    THEN [frontmatter |-> fm, changes |-> <<>>]
    ELSE
        LET hint0 == fm["argument-hint"]
            hint_str == JoinWith(<<" ">>, hint0.list)
            hint == IF hint0.isList THEN hint_str ELSE hint0.str
            c1 == IF hint0.isList
                  THEN <<"Converted argument-hint from list to string">>
                  ELSE <<>>
            c2 == IF ~StartsWithBracket(hint)
                  THEN <<"Added brackets to argument-hint">>
                  ELSE <<>>
            new_value == IF ~StartsWithBracket(hint)
                         THEN <<"[">> \o hint \o <<"]">>
                         ELSE hint
        IN  [frontmatter |->
                 IF hint0.isList \/ ~StartsWithBracket(hint)
                 THEN DictSet(fm, "argument-hint", HintStr(new_value))
                 ELSE fm,
             changes |-> c1 \o c2]

\* A rename that copies the value but forgets the guard and the del.
migrate_tools_field_name_nodel(fm) ==
    IF "tools" \in DOMAIN fm
    THEN [frontmatter |-> DictSet(fm, "allowed-tools", fm["tools"]),
          changes |-> <<"Renamed field: 'tools' -> 'allowed-tools'">>]
    ELSE [frontmatter |-> fm, changes |-> <<>>]

migrate_tools_field_name(fm) ==
    IF "tools" \in DOMAIN fm /\ "allowed-tools" \notin DOMAIN fm
    THEN [frontmatter |->
              DictDel(DictSet(fm, "allowed-tools", fm["tools"]), "tools"),
          changes |-> <<"Renamed field: 'tools' -> 'allowed-tools'">>]
    ELSE [frontmatter |-> fm, changes |-> <<>>]

apply_all_migrations(fm) ==
    LET r1 == migrate_short_alias_to_version_alias(fm)
        r2 == migrate_argument_hint_format(r1.frontmatter)
        r3 == migrate_tools_field_name(r2.frontmatter)
    IN  [frontmatter |-> r3.frontmatter,
         changes |-> r1.changes \o r2.changes \o r3.changes]

\* Metadata mappings a command file can carry.
OptionalKey(k, values) == {<<>>} \cup {(k :> v) : v \in values}
CommandFrontmatters ==
    {("description" :> FixBug) @@ m @@ h @@ t @@ a :
        m \in OptionalKey("model", ModelValues),
        h \in OptionalKey("argument-hint", HintValues),
        t \in OptionalKey("tools", ToolsValues),
        a \in OptionalKey("allowed-tools", AllowedToolsValues)}

InitMigrateCommand ==
    /\ frontmatter \in CommandFrontmatters
    /\ all_changes = <<>>
    /\ runs = 0
    /\ ExceptCmdIdle

\* One run of apply_all_migrations on the metadata in hand.
ApplyAllMigrations ==
    /\ runs < MaxRuns
    /\ LET r == apply_all_migrations(frontmatter)
       IN  /\ frontmatter' = r.frontmatter
           /\ all_changes' = r.changes
    /\ runs' = runs + 1
    /\ UNCHANGED exceptCmd

SpecMigrateCommand == InitMigrateCommand /\ [][ApplyAllMigrations]_vars

\* C1: metadata that is the output of apply_all_migrations is a fixed point
\* of apply_all_migrations: a further run returns the same metadata and an
\* empty change list.
C1_CommandMigrationIdempotent ==
    runs >= 1 =>
        /\ apply_all_migrations(frontmatter).frontmatter = frontmatter
        /\ apply_all_migrations(frontmatter).changes = <<>>
        /\ (runs >= 2 => all_changes = <<>>)

\* A first run that rewrote the model, the hint (from a list) and the tools key.
C1_Witness ==
    /\ runs = 1
    /\ Len(all_changes) >= 4
    /\ "allowed-tools" \in DOMAIN frontmatter
    /\ "tools" \notin DOMAIN frontmatter

\* C18: the tools -> allowed-tools rename never clobbers.  In a run of the
\* migrator, metadata that already has allowed-tools keeps its value and
\* keeps tools as it was; metadata with tools only ends with allowed-tools
\* holding the old tools value and without tools; and the rename rule by
\* itself leaves every other key and value as it found them.
C18_RenameNeverClobbers ==
    [][/\ "allowed-tools" \in DOMAIN frontmatter =>
             /\ "allowed-tools" \in DOMAIN frontmatter'
             /\ frontmatter'["allowed-tools"] = frontmatter["allowed-tools"]
             /\ "tools" \in DOMAIN frontmatter <=> "tools" \in DOMAIN frontmatter'
             /\ "tools" \in DOMAIN frontmatter =>
                    frontmatter'["tools"] = frontmatter["tools"]
       /\ ("tools" \in DOMAIN frontmatter /\ "allowed-tools" \notin DOMAIN frontmatter) =>
             /\ "allowed-tools" \in DOMAIN frontmatter'
             /\ frontmatter'["allowed-tools"] = frontmatter["tools"]
             /\ "tools" \notin DOMAIN frontmatter'
       /\ LET renamed == migrate_tools_field_name(frontmatter).frontmatter
              others(fm) == DOMAIN fm \ {"tools", "allowed-tools"}
          IN  /\ others(renamed) = others(frontmatter)
              /\ \A k \in others(frontmatter) : renamed[k] = frontmatter[k]
      ]_vars

\* A run that renamed tools, next to a model it left alone.
C18_Witness ==
    /\ runs = 1
    /\ all_changes = <<"Renamed field: 'tools' -> 'allowed-tools'">>
    /\ "allowed-tools" \in DOMAIN frontmatter
    /\ "model" \in DOMAIN frontmatter

(***************************************************************************)
(* migrate-hook.py: the hook migrator.                                     *)
(*                                                                         *)
(* hooks_config is <<>> when the file has no top-level "hooks" key, else   *)
(* ("hooks" :> events) where events lists, in file order, one record       *)
(* [event, groups] per event name.  A hook group and a hook item are dicts *)
(* with the optional keys matcher / hooks and type / command / prompt.  A  *)
(* command is the sequence of its whitespace-separated words.              *)
(***************************************************************************)
VALID_EVENTS ==
    {"PreToolUse", "PostToolUse", "UserPromptSubmit", "Stop",
     "SessionStart", "Notification", "SubagentStop", "PreCompact"}
TOOL_EVENTS == {"PreToolUse", "PostToolUse"}
LIFECYCLE_EVENTS ==
    {"UserPromptSubmit", "Stop", "SessionStart", "Notification",
     "SubagentStop", "PreCompact"}

\* One entry of a migration's change list: the text before the position
\* (kind), and the event, hook number and item number it names.
Change(kind, event, hook, item) ==
    [kind |-> kind, event |-> event, hook |-> hook, item |-> item]

\* `not s` and `s.strip() == ''` on the strings the model draws
IsFalsy(s) == s = ""
StripIsEmpty(s) == s \in {"", " "}

\* The groups of every event rewritten by f(event, groups).
MapEvents(cfg, f(_, _)) ==
    ("hooks" :> [e \in DOMAIN cfg["hooks"] |->
                    [event |-> cfg["hooks"][e].event,
                     groups |-> f(cfg["hooks"][e].event, cfg["hooks"][e].groups)]])

\* The change lists c(event, i, group) of all groups, in iteration order.
GroupChanges(cfg, c(_, _, _)) ==
    Concat([e \in DOMAIN cfg["hooks"] |->
        Concat([i \in DOMAIN cfg["hooks"][e].groups |->
            c(cfg["hooks"][e].event, i, cfg["hooks"][e].groups[i])])])

RemovesMatcher(event, g) ==
    /\ event \in LIFECYCLE_EVENTS
    /\ "matcher" \in DOMAIN g
    /\ (IsFalsy(g["matcher"]) \/ StripIsEmpty(g["matcher"]))

migrate_remove_empty_matchers(cfg) ==
    IF "hooks" \notin DOMAIN cfg
    THEN [config |-> cfg, changes |-> <<>>]
    ELSE
        LET fix(event, groups) ==
                [i \in DOMAIN groups |->
                    IF RemovesMatcher(event, groups[i])
                    THEN DictDel(groups[i], "matcher")
                    ELSE groups[i]]
            chg(event, i, g) ==
                IF event \in LIFECYCLE_EVENTS /\ "matcher" \in DOMAIN g
                THEN IF RemovesMatcher(event, g)
                     THEN <<Change("Removed empty matcher", event, i, 0)>>
                     ELSE <<Change("WARNING", event, i, 0)>>
                ELSE <<>>
        IN  [config |-> MapEvents(cfg, fix),
             changes |-> GroupChanges(cfg, chg)]

AddsMatcher(event, g) ==
    /\ event \in TOOL_EVENTS
    /\ ("matcher" \notin DOMAIN g \/ IsFalsy(g["matcher"]))

\* A default-matcher rule that does not look at the event.
migrate_add_missing_matchers_any_event(cfg) ==
    IF "hooks" \notin DOMAIN cfg
    THEN [config |-> cfg, changes |-> <<>>]
    ELSE
        LET lacks(g) == "matcher" \notin DOMAIN g \/ IsFalsy(g["matcher"])
            fix(event, groups) ==
                [i \in DOMAIN groups |->
                    IF lacks(groups[i]) THEN DictSet(groups[i], "matcher", "*")
                    ELSE groups[i]]
            chg(event, i, g) ==
                IF lacks(g) THEN <<Change("Added default matcher", event, i, 0)>>
                ELSE <<>>
        IN  [config |-> MapEvents(cfg, fix),
             changes |-> GroupChanges(cfg, chg)]

\* A default-matcher rule that records the change but stores nothing.
migrate_add_missing_matchers_nostore(cfg) ==
    IF "hooks" \notin DOMAIN cfg
    THEN [config |-> cfg, changes |-> <<>>]
    ELSE
        LET chg(event, i, g) ==
                IF AddsMatcher(event, g)
                THEN <<Change("Added default matcher", event, i, 0)>>
                ELSE <<>>
        IN  [config |-> cfg, changes |-> GroupChanges(cfg, chg)]

migrate_add_missing_matchers(cfg) ==
    IF "hooks" \notin DOMAIN cfg
    THEN [config |-> cfg, changes |-> <<>>]
    ELSE
        LET fix(event, groups) ==
                [i \in DOMAIN groups |->
                    IF AddsMatcher(event, groups[i])
                    THEN DictSet(groups[i], "matcher", "*")
                    ELSE groups[i]]
            chg(event, i, g) ==
                IF AddsMatcher(event, g)
                THEN <<Change("Added default matcher", event, i, 0)>>
                ELSE <<>>
        IN  [config |-> MapEvents(cfg, fix),
             changes |-> GroupChanges(cfg, chg)]

\* hook_item.get('type', '')
ItemType(item) == IF "type" \in DOMAIN item THEN item["type"] ELSE ""

\* The change lists c(event, i, j, item) of all hook items, in iteration
\* order; a group without a "hooks" key is skipped.
ItemChanges(cfg, c(_, _, _, _)) ==
    LET perGroup(event, i, g) ==
            IF "hooks" \notin DOMAIN g THEN <<>>
            ELSE Concat([j \in DOMAIN g["hooks"] |-> c(event, i, j, g["hooks"][j])])
    IN  GroupChanges(cfg, perGroup)

migrate_validate_hook_types(cfg) ==
    IF "hooks" \notin DOMAIN cfg
    THEN [config |-> cfg, changes |-> <<>>]
    ELSE
        LET fixItem(item) ==
                IF ItemType(item) \in {"command", "prompt"} THEN item
                ELSE IF "command" \in DOMAIN item THEN DictSet(item, "type", "command")
                ELSE IF "prompt" \in DOMAIN item THEN DictSet(item, "type", "prompt")
                ELSE item
            fix(event, groups) ==
                [i \in DOMAIN groups |->
                    IF "hooks" \notin DOMAIN groups[i] THEN groups[i]
                    ELSE DictSet(groups[i], "hooks",
                             [j \in DOMAIN groups[i]["hooks"] |->
                                 fixItem(groups[i]["hooks"][j])])]
            chg(event, i, j, item) ==
                LET hook_type == ItemType(item)
                IN  (IF hook_type \in {"command", "prompt"} THEN <<>>
                     ELSE IF "command" \in DOMAIN item
                     THEN <<Change("Fixed type to 'command'", event, i, j)>>
                     ELSE IF "prompt" \in DOMAIN item
                     THEN <<Change("Fixed type to 'prompt'", event, i, j)>>
                     ELSE <<Change("ERROR: Invalid type", event, i, j)>>)
                    \o (IF hook_type = "command" /\ "command" \notin DOMAIN item
                        THEN <<Change("ERROR: Missing 'command' field", event, i, j)>>
                        ELSE <<>>)
                    \o (IF hook_type = "prompt" /\ "prompt" \notin DOMAIN item
                        THEN <<Change("ERROR: Missing 'prompt' field", event, i, j)>>
                        ELSE <<>>)
        IN  [config |-> MapEvents(cfg, fix),
             changes |-> ItemChanges(cfg, chg)]

\* Script paths that start with '/' and with '${'
AbsolutePaths == {"/opt/run.sh"}
VariablePaths == {"${CLAUDE_PLUGIN_ROOT}/run.sh"}

migrate_normalize_script_paths(cfg) ==
    IF "hooks" \notin DOMAIN cfg
    THEN [config |-> cfg, changes |-> <<>>]
    ELSE
        LET command(item) ==
                IF "command" \in DOMAIN item THEN item["command"] ELSE <<>>
            chg(event, i, j, item) ==
                IF /\ ItemType(item) = "command"
                   /\ Len(command(item)) > 1
                   /\ command(item)[1] \in {"bash", "sh"}
                   /\ command(item)[2] \notin AbsolutePaths
                   /\ command(item)[2] \notin VariablePaths
                THEN <<Change("RECOMMEND", event, i, j)>>
                ELSE <<>>
        IN  [config |-> cfg, changes |-> ItemChanges(cfg, chg)]

migrate_remove_invalid_events(cfg) ==
    IF "hooks" \notin DOMAIN cfg
    THEN [config |-> cfg, changes |-> <<>>]
    ELSE
        LET valid(entry) == entry.event \in VALID_EVENTS
            invalid(entry) == entry.event \notin VALID_EVENTS
            removed == SelectSeq(cfg["hooks"], invalid)
        IN  [config |-> ("hooks" :> SelectSeq(cfg["hooks"], valid)),
             changes |-> [k \in DOMAIN removed |->
                             Change("REMOVED", removed[k].event, 0, 0)]]

\* The five migrations in the order main runs them.
RunHookMigrations(cfg) ==
    LET r1 == migrate_remove_invalid_events(cfg)
        r2 == migrate_remove_empty_matchers(r1.config)
        r3 == migrate_add_missing_matchers(r2.config)
        r4 == migrate_validate_hook_types(r3.config)
        r5 == migrate_normalize_script_paths(r4.config)
    IN  [config |-> r5.config,
         changes |-> r1.changes \o r2.changes \o r3.changes
                         \o r4.changes \o r5.changes]

\* Entries of the change list that report a condition and mutate nothing.
NonMutatingKinds ==
    {"WARNING", "RECOMMEND", "ERROR: Invalid type",
     "ERROR: Missing 'command' field", "ERROR: Missing 'prompt' field"}

\* Hook items drawn as input: valid and invalid types, with and without the
\* payload field the type needs.
HookItems ==
    {("type" :> "command") @@ ("command" :> <<"bash", "scripts/run.sh">>),
     ("type" :> "command") @@ ("command" :> <<"bash", "/opt/run.sh">>),
     ("type" :> "command") @@ ("command" :> <<"sh", "${CLAUDE_PLUGIN_ROOT}/run.sh">>),
     ("type" :> "command"),
     ("type" :> "prompt") @@ ("prompt" :> "check the change"),
     ("type" :> "prompt"),
     ("type" :> "script") @@ ("command" :> <<"bash", "scripts/run.sh">>),
     ("type" :> "script") @@ ("prompt" :> "check the change"),
     ("type" :> "script") @@ ("command" :> <<"echo", "ok">>)
         @@ ("prompt" :> "check the change"),
     ("type" :> "script"),
     ("command" :> <<"echo", "ok">>)}

MatcherValues == {"", " ", "Bash"}

\* Groups of a single-group event: every matcher with every item.
RichGroups ==
    {m @@ h : m \in OptionalKey("matcher", MatcherValues),
              h \in OptionalKey("hooks", {<<it>> : it \in HookItems})}
\* Groups of a multi-group event.
PlainGroups ==
    {m @@ ("hooks" :> <<it>>) :
        m \in OptionalKey("matcher", MatcherValues),
        it \in {("type" :> "script") @@ ("command" :> <<"bash", "scripts/run.sh">>),
                ("type" :> "command") @@ ("command" :> <<"bash", "/opt/run.sh">>)}}
GroupLists ==
    {<<g>> : g \in RichGroups} \cup SeqsUpTo(PlainGroups, MaxGroups)

\* A second event of the file, listed before or after the first.
OtherEntries ==
    {[event |-> e, groups |-> <<("hooks" :> <<("type" :> "prompt")
                                              @@ ("prompt" :> "check the change")>>)>>] :
        e \in {"PostToolUse", "SessionStart", "on_save"}}
HookConfigs ==
    {<<>>}
      \cup {("hooks" :> es) :
             es \in UNION {
                 {<<[event |-> e, groups |-> gl]>>}
                   \cup {<<[event |-> e, groups |-> gl], o>> : o \in OtherEntries}
                   \cup {<<o, [event |-> e, groups |-> gl]>> : o \in OtherEntries} :
                 e \in {"PreToolUse", "Stop", "OnSave"}, gl \in GroupLists}}

InitMigrateHook ==
    /\ hooks_config \in HookConfigs
    /\ hook_changes = <<>>
    /\ hook_runs = 0
    /\ ExceptHookIdle

\* One full run of migrate-hook's migrations on the working copy.
MigrateHook ==
    /\ hook_runs < MaxRuns
    /\ LET r == RunHookMigrations(hooks_config)
       IN  /\ hooks_config' = r.config
           /\ hook_changes' = r.changes
    /\ hook_runs' = hook_runs + 1
    /\ UNCHANGED exceptHook

SpecMigrateHook == InitMigrateHook /\ [][MigrateHook]_vars

\* C2 as stated: a full run on the output of a full run leaves the
\* configuration unchanged and returns an empty change list.
C2_RerunReportsNothing ==
    hook_runs >= 1 =>
        /\ RunHookMigrations(hooks_config).config = hooks_config
        /\ RunHookMigrations(hooks_config).changes = <<>>

\* C2 as amended: a full run on the output of a full run leaves the
\* configuration unchanged and records no mutation; the only entries it
\* returns are the WARNING / RECOMMEND / ERROR reports of conditions the
\* migrator does not repair.
C2_RerunMutatesNothing ==
    /\ hook_runs >= 1 =>
          /\ RunHookMigrations(hooks_config).config = hooks_config
          /\ \A k \in DOMAIN RunHookMigrations(hooks_config).changes :
                RunHookMigrations(hooks_config).changes[k].kind \in NonMutatingKinds
    /\ hook_runs >= 2 =>
          \A k \in DOMAIN hook_changes : hook_changes[k].kind \in NonMutatingKinds

\* A second run that still reports something.
C2_Witness ==
    /\ hook_runs = 2
    /\ hook_changes # <<>>

\* The entries of the configuration, and the entry an event has after a run.
Entries(cfg) == IF "hooks" \in DOMAIN cfg THEN cfg["hooks"] ELSE <<>>
EntryOf(cfg, event) ==
    LET named(entry) == entry.event = event IN Head(SelectSeq(Entries(cfg), named))
Occurrences(changes, change) == Cardinality({k \in DOMAIN changes : changes[k] = change})
OfKind(changes, kind) == {k \in DOMAIN changes : changes[k].kind = kind}

\* Tool-event groups of a configuration that lack a matcher or have an empty one.
LackMatcher(cfg) ==
    {<<e, i>> \in (DOMAIN Entries(cfg)) \X (1..MaxGroups) :
        /\ i \in DOMAIN Entries(cfg)[e].groups
        /\ Entries(cfg)[e].event \in TOOL_EVENTS
        /\ \/ "matcher" \notin DOMAIN Entries(cfg)[e].groups[i]
           \/ Entries(cfg)[e].groups[i]["matcher"] = ""}
\* Lifecycle-event groups of a configuration with an empty or blank matcher.
BlankMatcher(cfg) ==
    {<<e, i>> \in (DOMAIN Entries(cfg)) \X (1..MaxGroups) :
        /\ i \in DOMAIN Entries(cfg)[e].groups
        /\ Entries(cfg)[e].event \in LIFECYCLE_EVENTS
        /\ "matcher" \in DOMAIN Entries(cfg)[e].groups[i]
        /\ Entries(cfg)[e].groups[i]["matcher"] \in {"", " "}}

\* C16: a full hook migration gives every PreToolUse / PostToolUse group that
\* lacked a matcher or had an empty one the matcher "*" and records one
\* 'Added default matcher' change for each such group and for no other, and
\* it removes the matcher key of every lifecycle group whose matcher was
\* empty or blank.
C16_MatchersDefaultedAndRemoved ==
    [][/\ \A p \in LackMatcher(hooks_config) :
             LET event == Entries(hooks_config)[p[1]].event
                 after == EntryOf(hooks_config', event).groups[p[2]]
             IN  /\ "matcher" \in DOMAIN after /\ after["matcher"] = "*"
                 /\ Occurrences(hook_changes',
                                Change("Added default matcher", event, p[2], 0)) = 1
       /\ Cardinality(OfKind(hook_changes', "Added default matcher"))
              = Cardinality(LackMatcher(hooks_config))
       /\ \A p \in BlankMatcher(hooks_config) :
             LET event == Entries(hooks_config)[p[1]].event
             IN  "matcher" \notin DOMAIN EntryOf(hooks_config', event).groups[p[2]]
      ]_vars

\* A run that has defaulted a matcher and removed one.
C16_Witness ==
    /\ hook_runs = 1
    /\ OfKind(hook_changes, "Added default matcher") # {}
    /\ OfKind(hook_changes, "Removed empty matcher") # {}
    /\ \E e \in DOMAIN Entries(hooks_config) :
          \E i \in DOMAIN Entries(hooks_config)[e].groups :
              /\ "matcher" \in DOMAIN Entries(hooks_config)[e].groups[i]
              /\ Entries(hooks_config)[e].groups[i]["matcher"] = "*"

\* Hook items of valid events whose type is neither command nor prompt, as
\* (entry, group, item) positions.
UntypedItems(cfg) ==
    {p \in (DOMAIN Entries(cfg)) \X (1..MaxGroups) \X {1} :
        /\ Entries(cfg)[p[1]].event \in VALID_EVENTS
        /\ p[2] \in DOMAIN Entries(cfg)[p[1]].groups
        /\ "hooks" \in DOMAIN Entries(cfg)[p[1]].groups[p[2]]
        /\ p[3] \in DOMAIN Entries(cfg)[p[1]].groups[p[2]]["hooks"]
        /\ ItemType(Entries(cfg)[p[1]].groups[p[2]]["hooks"][p[3]])
               \notin {"command", "prompt"}}

\* C17: for a hook item whose type is neither command nor prompt, a run of
\* the migrator sets the type from the payload field when exactly one of
\* command / prompt is present; when both or neither are present it leaves
\* the type as it was and records an ERROR entry for the item.
C17_TypeFromSinglePayload ==
    [][\A p \in UntypedItems(hooks_config) :
          LET event == Entries(hooks_config)[p[1]].event
              before == Entries(hooks_config)[p[1]].groups[p[2]]["hooks"][p[3]]
              after == EntryOf(hooks_config', event).groups[p[2]]["hooks"][p[3]]
              has_command == "command" \in DOMAIN before
              has_prompt == "prompt" \in DOMAIN before
          IN  IF has_command /\ ~has_prompt THEN ItemType(after) = "command"
              ELSE IF has_prompt /\ ~has_command THEN ItemType(after) = "prompt"
              ELSE /\ ItemType(after) = ItemType(before)
                   /\ Occurrences(hook_changes',
                                  Change("ERROR: Invalid type", event, p[2], p[3])) = 1
      ]_vars

(***************************************************************************)
(* The rules of both migrators, applied in an order other than the         *)
(* scripts'.                                                               *)
(***************************************************************************)
CommandRules == {"short_alias", "argument_hint", "tools_field_name"}
HookRules == {"remove_invalid_events", "remove_empty_matchers",
              "add_missing_matchers", "validate_hook_types"}

\* The metadata a rule returns.
ApplyRule(rule, data) ==
    CASE rule = "short_alias" -> migrate_short_alias_to_version_alias(data).frontmatter
      [] rule = "argument_hint" -> migrate_argument_hint_format(data).frontmatter
      [] rule = "tools_field_name" -> migrate_tools_field_name(data).frontmatter
      [] rule = "remove_invalid_events" -> migrate_remove_invalid_events(data).config
      [] rule = "remove_empty_matchers" -> migrate_remove_empty_matchers(data).config
      [] rule = "add_missing_matchers" -> migrate_add_missing_matchers(data).config
      [] rule = "validate_hook_types" -> migrate_validate_hook_types(data).config

RECURSIVE ApplyRules(_, _)
ApplyRules(order, data) ==
    IF order = <<>> THEN data
    ELSE ApplyRules(Tail(order), ApplyRule(Head(order), data))

Orders(rules) ==
    {order \in [1..Cardinality(rules) -> rules] :
        \A i, j \in DOMAIN order : order[i] = order[j] => i = j}

\* Either migrator, on its own input.
InitMigrateRules == InitMigrateCommand \/ InitMigrateHook
RunCommandRules == HookIdle /\ ApplyAllMigrations
RunHookRules == CmdIdle /\ MigrateHook
NextMigrateRules == RunCommandRules \/ RunHookRules
SpecMigrateRules == InitMigrateRules /\ [][NextMigrateRules]_vars

\* C19: the migration rules commute.  For the metadata in hand, the three
\* command rules applied in any order, and the four mutating hook rules
\* applied in any order, end in the metadata the script's own order ends in.
C19_RulesCommute ==
    /\ \A order \in Orders(CommandRules) :
          ApplyRules(order, frontmatter) = apply_all_migrations(frontmatter).frontmatter
    /\ \A order \in Orders(HookRules) :
          ApplyRules(order, hooks_config) = RunHookMigrations(hooks_config).config

\* A hook run in which three of the mutating rules acted.
C19_Witness ==
    /\ hook_runs = 1
    /\ OfKind(hook_changes, "REMOVED") # {}
    /\ OfKind(hook_changes, "Added default matcher") # {}
    /\ OfKind(hook_changes, "Fixed type to 'command'") # {}

(***************************************************************************)
(* migrate-agent.py: the agent migrator.                                   *)
(*                                                                         *)
(* A name is a sequence of characters.  A tools string is the sequence of  *)
(* its comma-separated entries plus whether it is written without the      *)
(* space after each comma ("Read,Bash").  A body is the record of the      *)
(* text features the migrator tests.                                       *)
(***************************************************************************)
NameLimit == 64

Min(a, b) == IF a <= b THEN a ELSE b

\* str.lower() on the characters the model draws
Lower(c) == IF c = "A" THEN "a" ELSE c
\* the class [a-z0-9-]
LowerDigitHyphen ==
    {"a", "b", "c", "d", "e", "f", "g", "h", "i", "j", "k", "l", "m", "n", "o",
     "p", "q", "r", "s", "t", "u", "v", "w", "x", "y", "z",
     "0", "1", "2", "3", "4", "5", "6", "7", "8", "9", "-"}

RECURSIVE CollapseHyphens(_)
\* re.sub(r'-+', '-', name)
CollapseHyphens(s) ==
    IF Len(s) < 2 THEN s
    ELSE IF s[1] = "-" /\ s[2] = "-" THEN CollapseHyphens(Tail(s))
    ELSE <<s[1]>> \o CollapseHyphens(Tail(s))

RECURSIVE StripHyphens(_)
\* name.strip('-')
StripHyphens(s) ==
    IF s = <<>> THEN s
    ELSE IF s[1] = "-" THEN StripHyphens(Tail(s))
    ELSE IF s[Len(s)] = "-" THEN StripHyphens(SubSeq(s, 1, Len(s) - 1))
    ELSE s

fix_agent_name(name) ==
    LET lowered == [i \in DOMAIN name |-> Lower(name[i])]
        replaced == [i \in DOMAIN lowered |->
                        IF lowered[i] \in LowerDigitHyphen THEN lowered[i] ELSE "-"]
        stripped == StripHyphens(CollapseHyphens(replaced))
    IN  SubSeq(stripped, 1, Min(NameLimit, Len(stripped)))

\* extract_description(body): the text after "You are", else the first long
\* paragraph, else the placeholder.
extract_description(body) ==
    CASE body.you_are = "empty" -> ""
      [] body.you_are = "text" -> "a code reviewer"
      [] body.you_are = "none" /\ body.paragraph -> "Reviews code for defects."
      [] OTHER -> "Agent description needed"

\* substring tests on a tools string
BashLike == {"Bash", "BashOutput"}
WriteLike == {"Write", "TodoWrite"}
EditLike == {"Edit", "NotebookEdit"}
Mentions(tools, like) == \E i \in DOMAIN tools.items : tools.items[i] \in like

\* ', '.join([t.strip() for t in tools.split(',') if t.strip() != tool])
Without(tools, tool) ==
    LET keep(t) == t # tool
    IN  [tight |-> FALSE, items |-> SelectSeq(tools.items, keep)]

\* the model rewrite of migrate_incomplete_to_complete
AgentModelAlias(model) ==
    CASE model \in {"claude-sonnet-4-5", "claude-sonnet-4-5-20250929"} -> "sonnet"
      [] model \in {"claude-opus-4-5"} -> "opus"
      [] model \in {"claude-haiku-4-5"} -> "haiku"
      [] OTHER -> model

migrate_incomplete_to_complete(fm, body) ==
    LET \* Fix name if needed
        renamed == "name" \in DOMAIN fm /\ fix_agent_name(fm["name"]) # fm["name"]
        fm1 == IF renamed THEN DictSet(fm, "name", fix_agent_name(fm["name"])) ELSE fm
        c1 == IF renamed THEN <<"Fixed name">> ELSE <<>>
        \* Add description if missing
        undescribed == "description" \notin DOMAIN fm1 \/ fm1["description"] = ""
        fm2 == IF undescribed
               THEN DictSet(fm1, "description", extract_description(body))
               ELSE fm1
        c2 == IF undescribed THEN <<"Added description field">> ELSE <<>>
        \* Optimize tools if over-permissioned; both removals filter the
        \* tools value read before either of them
        has_tools == "tools" \in DOMAIN fm2
        tools == fm2["tools"]
        drop_bash == has_tools /\ Mentions(tools, BashLike) /\ ~body.validation
        drop_write == has_tools /\ Mentions(tools, WriteLike) /\ Mentions(tools, EditLike)
        fm3 == IF drop_write THEN DictSet(fm2, "tools", Without(tools, "Write"))
               ELSE IF drop_bash THEN DictSet(fm2, "tools", Without(tools, "Bash"))
               ELSE fm2
        c3 == (IF drop_bash THEN <<"Removed Bash (no validation documented)">> ELSE <<>>)
                \o (IF drop_write THEN <<"Removed Write (Edit already present)">> ELSE <<>>)
        \* Update model to alias if specific version
        remodel == "model" \in DOMAIN fm3 /\ AgentModelAlias(fm3["model"]) # fm3["model"]
        fm4 == IF remodel THEN DictSet(fm3, "model", AgentModelAlias(fm3["model"])) ELSE fm3
        c4 == IF remodel THEN <<"Updated model">> ELSE <<>>
        \* Add missing content sections
        add_sections == ~body.capabilities \/ ~body.workflow \/ ~body.example
        body1 == IF add_sections
                 THEN [body EXCEPT !.capabilities = TRUE, !.workflow = TRUE,
                                   !.example = TRUE]
                 ELSE body
        c5 == IF add_sections THEN <<"Added template sections">> ELSE <<>>
    IN  [frontmatter |-> fm4, body |-> body1, changes |-> c1 \o c2 \o c3 \o c4 \o c5]

AgentNameChars == {"a", "A", "-", "_"}
\* Names well below the length limit and names that reach it.
AgentNames ==
    {prefix \o tail :
        prefix \in {<<>>, [i \in 1..(NameLimit - 1) |-> "a"]},
        tail \in SeqsUpTo(AgentNameChars, MaxNameTail)}
AgentTools ==
    {[tight |-> t, items |-> l] :
        t \in BOOLEAN, l \in SeqsUpTo({"Bash", "Write", "Edit", "BashOutput"}, MaxTools)}
      \ {[tight |-> TRUE, items |-> l] : l \in SeqsUpTo(BashLike \cup WriteLike \cup EditLike, 1)}
AgentModels ==
    {"sonnet", "opus", "haiku", "inherit", "claude-sonnet-4-5",
     "claude-sonnet-4-5-20250929", "claude-opus-4-5", "claude-haiku-4-5"}
AgentBodies ==
    [you_are : {"none", "empty", "text"}, paragraph : BOOLEAN, validation : BOOLEAN,
     capabilities : BOOLEAN, workflow : BOOLEAN, example : BOOLEAN]
CompleteBody(validation) ==
    [you_are |-> "text", paragraph |-> TRUE, validation |-> validation,
     capabilities |-> TRUE, workflow |-> TRUE, example |-> TRUE]
BaseAgent == ("name" :> <<"a">>) @@ ("description" :> "Reviews code.")

\* Agents drawn as input: each family varies one field over all its values.
AgentInputs ==
    {[frontmatter |-> n @@ ("description" :> "Reviews code."), body |-> CompleteBody(v)] :
        n \in OptionalKey("name", AgentNames), v \in BOOLEAN}
      \cup {[frontmatter |-> BaseAgent @@ ("tools" :> t), body |-> CompleteBody(v)] :
              t \in AgentTools, v \in BOOLEAN}
      \cup {[frontmatter |-> ("name" :> <<"a">>) @@ d, body |-> b] :
              d \in OptionalKey("description", {"", "Reviews code."}), b \in AgentBodies}
      \cup {[frontmatter |-> BaseAgent @@ ("model" :> m), body |-> CompleteBody(TRUE)] :
              m \in AgentModels}

InitMigrateAgent ==
    /\ \E a \in AgentInputs :
          /\ new_frontmatter = a.frontmatter
          /\ new_body = a.body
    /\ agent_changes = <<>>
    /\ agent_runs = 0
    /\ ExceptAgentIdle

\* One run of migrate_incomplete_to_complete on the agent in hand.
MigrateAgent ==
    /\ agent_runs < MaxRuns
    /\ LET r == migrate_incomplete_to_complete(new_frontmatter, new_body)
       IN  /\ new_frontmatter' = r.frontmatter
           /\ new_body' = r.body
           /\ agent_changes' = r.changes
    /\ agent_runs' = agent_runs + 1
    /\ UNCHANGED exceptAgent

SpecMigrateAgent == InitMigrateAgent /\ [][MigrateAgent]_vars

\* C3: the output of migrate_incomplete_to_complete is a fixed point of it:
\* a further run returns the same frontmatter and body and an empty change
\* list.
C3_AgentMigrationIdempotent ==
    agent_runs >= 1 =>
        LET r == migrate_incomplete_to_complete(new_frontmatter, new_body)
        IN  /\ r.frontmatter = new_frontmatter
            /\ r.body = new_body
            /\ r.changes = <<>>

HasEntry(tools, name) == \E i \in DOMAIN tools.items : tools.items[i] = name
Logged(changes, change) == \E k \in DOMAIN changes : changes[k] = change

\* C27: the change log of the agent migrator matches what it did to the
\* tools list: when the log of a run holds 'Removed Bash (no validation
\* documented)' the tools value it returned has no Bash entry, and when it
\* holds 'Removed Write (Edit already present)' it has no Write entry.
C27_ToolsLogMatchesTools ==
    agent_runs >= 1 =>
        /\ Logged(agent_changes, "Removed Bash (no validation documented)") =>
               ~HasEntry(new_frontmatter["tools"], "Bash")
        /\ Logged(agent_changes, "Removed Write (Edit already present)") =>
               ~HasEntry(new_frontmatter["tools"], "Write")

(***************************************************************************)
(* audit-commands.py and validate-command.py: the command validators.      *)
(*                                                                         *)
(* A command file is [stem, block, frontmatter, body].  block says what    *)
(* the text between the --- lines is: "mapping" (frontmatter holds it),    *)
(* "empty" (YAML decodes it to None), "list" or "scalar" (YAML decodes it  *)
(* to a list or a string), "yaml_error", or "no_frontmatter" (the          *)
(* delimiter pattern does not match).  body is the sequence of its chunks  *)
(* [fence, line]: a line of prose (fence "text") or a one-line fenced code *)
(* block in that language.                                                 *)
(***************************************************************************)
StartsWith(s, prefix) ==
    Len(s) >= Len(prefix) /\ SubSeq(s, 1, Len(prefix)) = prefix

\* The pattern below compiled case-insensitively.
MatchesLowerHyphenAnyCase(name) ==
    Len(name) >= 1 /\ \A i \in DOMAIN name : Lower(name[i]) \in LowerDigitHyphen

\* re.match(r'^[a-z0-9-]+$', name)
MatchesLowerHyphen(name) ==
    Len(name) >= 1 /\ \A i \in DOMAIN name : name[i] \in LowerDigitHyphen

common_verbs ==
    {<<"a","d","d">>, <<"b","u","i","l","d">>, <<"c","h","e","c","k">>,
     <<"c","l","e","a","n">>, <<"c","o","m","m","i","t">>, <<"c","r","e","a","t","e">>,
     <<"d","e","l","e","t","e">>, <<"d","e","p","l","o","y">>,
     <<"g","e","n","e","r","a","t","e">>, <<"g","e","t">>,
     <<"i","n","s","t","a","l","l">>, <<"l","i","s","t">>, <<"m","a","k","e">>,
     <<"p","u","s","h">>, <<"r","e","m","o","v","e">>, <<"r","e","v","i","e","w">>,
     <<"r","u","n">>, <<"s","e","a","r","c","h">>, <<"s","h","o","w">>,
     <<"t","e","s","t">>, <<"u","p","d","a","t","e">>,
     <<"v","a","l","i","d","a","t","e">>}
\* audit-commands also lists 'new'
audit_common_verbs == common_verbs \cup {<<"n","e","w">>}
VerbFirst(name, verbs) == \E v \in verbs : StartsWith(name, v)

valid_tools ==
    {"Read", "Write", "Edit", "Grep", "Glob", "Bash", "WebFetch", "WebSearch",
     "NotebookEdit", "Task", "TodoWrite", "BashOutput", "KillShell"}

\* A list of short aliases that forgets 'inherit'.
short_aliases_tiers_only == {"haiku", "sonnet", "opus"}

\* model in ['haiku', 'sonnet', 'opus', 'inherit']
short_aliases == {"haiku", "sonnet", "opus", "inherit"}
\* model.startswith('claude-') on the model values drawn
StartsWithClaude(model) ==
    model \in {"claude-haiku-4-5", "claude-sonnet-4-5", "claude-opus-4-5"}

\* 'Bash' in frontmatter.get('allowed-tools', ''): a substring test on a
\* string, a membership test on a list.
BashAllowed(fm) ==
    /\ "allowed-tools" \in DOMAIN fm
    /\ \E i \in DOMAIN fm["allowed-tools"].items :
          IF fm["allowed-tools"].isList
          THEN fm["allowed-tools"].items[i] = "Bash"
          ELSE fm["allowed-tools"].items[i] \in BashLike

\* Lines a body is made of, with the patterns each one matches.
BodyLines ==
    {"eval $ARGUMENTS", "rm -rf $1", "curl https://get.example | sh", "echo done",
     "Validation: input is checked", "## Arguments"}
PositionalLines == {"rm -rf $1"}            \* \$\d+ and \$[1-9]
AllArgsLines == {"eval $ARGUMENTS"}         \* '$ARGUMENTS'
EndsInVariable == {"eval $ARGUMENTS", "rm -rf $1"}   \* \$\w+ at the end of the line
EvalLines == {"eval $ARGUMENTS"}            \* eval\s+\$
RmVariableLines == {"rm -rf $1"}            \* rm\s+-rf\s+\$
CurlShLines == {"curl https://get.example | sh"}     \* curl.*\|\s*sh
\* 'validation' in body.lower(); (validate|check|if\s+\[|test\s+)
ValidationLines == {"Validation: input is checked"}
ArgumentsHeading == {"## Arguments"}
Fences == {"text", "bash", "sh", "python"}
BodyHas(body, lines) == \E i \in DOMAIN body : body[i].line \in lines
\* the contents of the ```bash and ```sh blocks
BashBlocks(body) ==
    LET shell(chunk) == chunk.fence \in {"bash", "sh"} IN SelectSeq(body, shell)

\* What a validator hands back: its status and finding lists, or the fact
\* that it raised instead of returning.
Findings(status, critical, warnings, recommendations) ==
    [status |-> status, critical_errors |-> critical, warnings |-> warnings,
     recommendations |-> recommendations]
Raised == Findings("exception", <<>>, <<>>, <<>>)
NotRun == Findings("not_run", <<>>, <<>>, <<>>)
\* "Determine status"
Graded(critical, warnings, recommendations) ==
    Findings(IF critical # <<>> THEN "errors"
             ELSE IF warnings # <<>> THEN "warnings" ELSE "valid",
             critical, warnings, recommendations)
When(cond, msg) == IF cond THEN <<msg>> ELSE <<>>

\* parse_command / parse_skill: the error message, "" for None
parse_error(file) ==
    CASE file.block = "no_frontmatter" -> "Missing YAML frontmatter"
      [] file.block = "yaml_error" -> "Invalid YAML"
      [] OTHER -> ""

\* audit-commands.py: the filename checks of validate_command
AuditNaming(name, what) ==
    When(~MatchesLowerHyphen(name), "Invalid " \o what \o ": must be lowercase-hyphens only")
      \o When(\E i \in DOMAIN name : name[i] = "_", "Underscores not allowed in " \o what)
      \o When(Len(name) > NameLimit, what \o " exceeds 64 characters")

\* audit-commands.py: validate_command
audit_validate_command(file) ==
    LET fm == file.frontmatter
        body == file.body
        name == AuditNaming(file.stem, "filename")
        verb == When(~VerbFirst(file.stem, audit_common_verbs),
                     "Consider verb-first naming")
        uses_args == BodyHas(body, PositionalLines) \/ BodyHas(body, AllArgsLines)
        injection ==
            \E i \in DOMAIN body :
                /\ body[i].line \in EndsInVariable
                /\ \/ body[i].fence # "text"
                   \/ i < Len(body) /\ body[i + 1].fence # "text"
        critical ==
            name
              \o When("description" \notin DOMAIN fm, "Missing required 'description' field")
              \o When("model" \in DOMAIN fm /\ fm["model"] \in short_aliases,
                      "CRITICAL: Commands cannot use short alias")
              \o When(/\ "allowed-tools" \in DOMAIN fm
                      /\ ~fm["allowed-tools"].isList
                      /\ BashAllowed(fm)
                      /\ body # <<>>
                      /\ ~BodyHas(body, ValidationLines),
                      "Has Bash access without input validation documentation")
              \o When(body # <<>> /\ BashAllowed(fm) /\ injection,
                      "SECURITY: Potential command injection risk")
              \o When(body # <<>> /\ BashAllowed(fm) /\ BodyHas(body, RmVariableLines),
                      "SECURITY: Dangerous rm -rf with variable")
              \o When(body # <<>> /\ BashAllowed(fm) /\ BodyHas(body, EvalLines),
                      "SECURITY: Using eval with arguments is dangerous")
        unknown_tools ==
            IF "allowed-tools" \in DOMAIN fm /\ ~fm["allowed-tools"].isList
            THEN LET unknown(t) == t \notin valid_tools
                     bad == SelectSeq(fm["allowed-tools"].items, unknown)
                 IN  [k \in DOMAIN bad |-> "Unknown tool"]
            ELSE <<>>
        warnings ==
            When("description" \in DOMAIN fm /\ Len(fm["description"]) < 10,
                 "Description too short (< 10 chars)")
              \o When("description" \in DOMAIN fm /\ Len(fm["description"]) > 200,
                      "Description too long (> 200 chars)")
              \o When(/\ "model" \in DOMAIN fm
                      /\ fm["model"] \notin short_aliases
                      /\ ~StartsWithClaude(fm["model"]),
                      "Model doesn't start with 'claude-'")
              \o unknown_tools
              \o When(uses_args /\ "argument-hint" \notin DOMAIN fm,
                      "Uses arguments but missing 'argument-hint' field")
        recommendations ==
            verb \o When(uses_args /\ ~BodyHas(body, ArgumentsHeading),
                         "Add '## Arguments' section to document parameters")
    IN  CASE parse_error(file) # "" ->
                Findings("parse_error", <<parse_error(file)>>, <<>>, <<>>)
          \* 'description' not in None raises TypeError
          [] file.block = "empty" -> Raised
          \* a list or a string has no .get: reached when the body is not empty
          [] file.block \in {"list", "scalar"} ->
                IF body # <<>> THEN Raised
                ELSE Graded(name \o <<"Missing required 'description' field">>,
                            <<>>, verb)
          [] OTHER -> Graded(critical, warnings, recommendations)

\* validate-command.py: one entry of the errors list, split into the prefix
\* that main() sorts it by and the rest of the message.
Entry(prefix, msg) == [prefix |-> prefix, msg |-> msg]
Returned(errors) ==
    LET critical(e) == e.prefix \notin {"Warning:", "Recommendation:"}
    IN  [status |-> "returned", is_valid |-> SelectSeq(errors, critical) = <<>>,
         errors |-> errors]
\* the call ended in an uncaught exception
Uncaught == [status |-> "exception", is_valid |-> FALSE, errors |-> <<>>]
Unchecked == [status |-> "not_run", is_valid |-> FALSE, errors |-> <<>>]

\* validate-command.py: the filename checks, made before the file is read
ValidateNaming(stem) ==
    When(~MatchesLowerHyphen(stem),
         Entry("", "Invalid filename: must be lowercase letters, numbers, and hyphens only"))
      \o When(\E i \in DOMAIN stem : stem[i] = "_",
              Entry("", "Invalid filename: underscores not allowed, use hyphens instead"))
      \o When(~VerbFirst(stem, common_verbs),
              Entry("Recommendation:", "Command names are typically action-oriented"))

\* validate-command.py: validate_command
validate_command(file) ==
    LET fm == file.frontmatter
        body == file.body
        blocks == BashBlocks(body)
        hint0 == fm["argument-hint"]
        arg_hint == IF hint0.isList THEN JoinWith(<<" ">>, hint0.list) ELSE hint0.str
        uses_positional == BodyHas(body, PositionalLines)
        uses_all_args == BodyHas(body, AllArgsLines)
        unknown_tools ==
            IF "allowed-tools" \in DOMAIN fm /\ ~fm["allowed-tools"].isList
            THEN LET unknown(t) == t \notin valid_tools
                     bad == SelectSeq(fm["allowed-tools"].items, unknown)
                 IN  [k \in DOMAIN bad |-> Entry("Warning:", "Unknown tool")]
            ELSE <<>>
        unvalidated ==
            LET uses(chunk) == chunk.line \in PositionalLines \cup AllArgsLines
                found == SelectSeq(blocks, uses)
            IN  [k \in DOMAIN found |->
                    Entry("Warning:", "Bash code block uses arguments without visible validation")]
        \* none of the lines drawn matches rm -rf /, | bash, wget | sh or
        \* a variable followed by &&, | or ;
        security ==
            IF BashAllowed(fm)
            THEN When(BodyHas(blocks, EvalLines),
                      Entry("SECURITY ERROR:", "Using eval with arguments enables arbitrary code execution"))
                   \o When(BodyHas(blocks, CurlShLines),
                           Entry("SECURITY ERROR:", "Piping curl to sh enables remote code execution"))
                   \o When(BodyHas(blocks, RmVariableLines),
                           Entry("Warning:", "Dangerous rm -rf with variable"))
                   \o unvalidated
            ELSE <<>>
        fields ==
            (IF "description" \notin DOMAIN fm
             THEN <<Entry("Recommendation:", "Add 'description' field")>>
             ELSE When(Len(fm["description"]) < 10,
                       Entry("Warning:", "Description is very short")))
              \o unknown_tools
              \o (IF "model" \notin DOMAIN fm THEN <<>>
                  ELSE IF fm["model"] \in short_aliases
                  THEN <<Entry("CRITICAL ERROR:", "Commands cannot use short aliases")>>
                  ELSE When(~StartsWithClaude(fm["model"]),
                            Entry("Warning:", "Model doesn't match expected format 'claude-*'")))
              \o When("argument-hint" \in DOMAIN fm /\ ~StartsWithBracket(arg_hint),
                      Entry("Warning:", "argument-hint typically uses brackets"))
        content ==
            When((uses_positional \/ uses_all_args) /\ "argument-hint" \notin DOMAIN fm,
                 Entry("Recommendation:", "Add 'argument-hint' field"))
              \o When(uses_positional /\ ~BodyHas(body, ArgumentsHeading),
                      Entry("Recommendation:", "Add an '## Arguments' section"))
              \* no line drawn is a Workflow, Steps, Example or Usage heading
              \o <<Entry("Recommendation:", "Add a workflow section"),
                   Entry("Recommendation:", "Add usage examples")>>
    IN  CASE file.block = "no_frontmatter" ->
                Returned(ValidateNaming(file.stem)
                           \o <<Entry("", "Missing YAML frontmatter")>>)
          [] file.block = "yaml_error" ->
                Returned(ValidateNaming(file.stem)
                           \o <<Entry("", "Invalid YAML syntax")>>)
          \* 'description' not in None raises TypeError; a list or a string
          \* has no .get
          [] file.block \in {"empty", "list", "scalar"} -> Uncaught
          [] OTHER ->
                Returned(ValidateNaming(file.stem) \o fields \o content \o security)

\* validate-command.py main(): the entries printed under "Critical Errors"
critical_errors(result) ==
    LET critical(e) == e.prefix \notin {"Warning:", "Recommendation:"}
    IN  SelectSeq(result.errors, critical)

(***************************************************************************)
(* audit-skills.py and migrate-skill.py.  A skill is the same record as a  *)
(* command file: stem is the name of the skill directory and the other     *)
(* fields describe its SKILL.md.  The directories drawn hold no scripts,   *)
(* references, assets or templates.                                        *)
(***************************************************************************)
EndsWith(s, suffix) ==
    Len(s) >= Len(suffix) /\ SubSeq(s, Len(s) - Len(suffix) + 1, Len(s)) = suffix
\* suffix in s, on character sequences
Contains(s, sub) ==
    \E i \in 0..(Len(s) - Len(sub)) : SubSeq(s, i + 1, i + Len(sub)) = sub
LowerSeq(s) == [i \in DOMAIN s |-> Lower(s[i])]

gerund_words == {<<"-", "i", "n", "g", "-">>, <<"a", "n", "a", "l", "y", "z", "i", "n", "g">>,
     <<"b", "u", "i", "l", "d", "i", "n", "g">>,
     <<"c", "r", "e", "a", "t", "i", "n", "g">>}
GerundForm(name) ==
    EndsWith(name, <<"i", "n", "g">>) \/ \E w \in gerund_words : Contains(name, w)
\* every trigger keyword of migrate-skill.py contains 'when'
HasTrigger(desc) == Contains(LowerSeq(desc), <<"w", "h", "e", "n">>)
\* audit-skills.py also accepts 'automatically activated'
AuditHasTrigger(desc) ==
    HasTrigger(desc) \/ Contains(LowerSeq(desc), <<"a", "u", "t", "o", "m", "a", "t", "i", "c", "a", "l", "l", "y", " ", "a", "c", "t", "i", "v", "a", "t", "e", "d">>)

\* audit-skills.py: validate_skill
validate_skill(skill) ==
    LET fm == skill.frontmatter
        body == skill.body
        name == AuditNaming(skill.stem, "directory name")
        structure ==
            When(~GerundForm(skill.stem), "Consider gerund form for skill names")
              \o When(body # <<>> /\ ~BodyHas(body, ArgumentsHeading),
                      "Add section headings (##) to structure the skill content")
              \* no line drawn names a recommended section
              \o When(body # <<>>, "Consider adding sections")
        critical ==
            name
              \o When("name" \notin DOMAIN fm, "Missing required 'name' field")
              \o When("description" \notin DOMAIN fm, "Missing required 'description' field")
              \o When("description" \in DOMAIN fm /\ Len(fm["description"]) > 1024,
                      "Description exceeds 1024 character limit")
              \o When("model" \in DOMAIN fm, "CRITICAL: Skills cannot have 'model' field")
        unknown_tools ==
            IF "allowed-tools" \in DOMAIN fm /\ ~fm["allowed-tools"].isList
            THEN LET unknown(t) == t \notin valid_tools
                     bad == SelectSeq(fm["allowed-tools"].items, unknown)
                 IN  [k \in DOMAIN bad |-> "Unknown tool"]
            ELSE <<>>
        warnings ==
            When("name" \in DOMAIN fm /\ fm["name"] # skill.stem,
                 "Name doesn't match directory")
              \o When("description" \in DOMAIN fm /\ Len(fm["description"]) < 30,
                      "Description too short for skills (< 30 chars)")
              \o When("description" \in DOMAIN fm /\ ~AuditHasTrigger(fm["description"]),
                      "Description should clearly state WHEN Claude should auto-invoke")
              \o unknown_tools
              \o When(/\ "allowed-tools" \in DOMAIN fm
                      /\ ~fm["allowed-tools"].isList
                      /\ BashAllowed(fm)
                      /\ body # <<>>
                      /\ ~BodyHas(body, ValidationLines),
                      "Has Bash access - ensure input validation is documented")
    IN  CASE parse_error(skill) # "" ->
                Findings("parse_error", <<parse_error(skill)>>, <<>>, <<>>)
          \* 'name' not in None raises TypeError
          [] skill.block = "empty" -> Raised
          \* a list or a string that names none of the fields
          [] skill.block \in {"list", "scalar"} ->
                Graded(name \o <<"Missing required 'name' field",
                                 "Missing required 'description' field">>,
                       <<>>, structure)
          [] OTHER -> Graded(critical, warnings, structure)

\* A deletion that reports the removal but leaves the field in place.
migrate_remove_model_field_kept(fm) ==
    IF "model" \in DOMAIN fm
    THEN [frontmatter |-> fm, changes |-> <<"CRITICAL: Removed 'model' field">>]
    ELSE [frontmatter |-> fm, changes |-> <<>>]

\* migrate-skill.py
migrate_remove_model_field(fm) ==
    IF "model" \in DOMAIN fm
    THEN [frontmatter |-> DictDel(fm, "model"),
          changes |-> <<"CRITICAL: Removed 'model' field">>]
    ELSE [frontmatter |-> fm, changes |-> <<>>]

migrate_gerund_form_recommendation(fm, skill_name) ==
    LET name == IF "name" \in DOMAIN fm THEN fm["name"] ELSE skill_name
    IN  [frontmatter |-> fm,
         changes |-> When(~GerundForm(name), "RECOMMENDATION: Consider gerund form")]

migrate_description_triggers(fm) ==
    [frontmatter |-> fm,
     changes |-> When(/\ "description" \in DOMAIN fm
                      /\ fm["description"] # <<>>
                      /\ ~HasTrigger(fm["description"]),
                      "RECOMMENDATION: Description should state WHEN")]

\* migrate-skill.py: apply_all_migrations
skill_apply_all_migrations(fm, skill_name) ==
    LET r1 == migrate_remove_model_field(fm)
        r2 == migrate_gerund_form_recommendation(r1.frontmatter, skill_name)
        r3 == migrate_description_triggers(r2.frontmatter)
    IN  [frontmatter |-> r3.frontmatter,
         changes |-> r1.changes \o r2.changes \o r3.changes]

(***************************************************************************)
(* The validators and migrators applied to one artifact.                   *)
(***************************************************************************)
\* Characters that decide the naming rules: lowercase, uppercase, hyphen,
\* underscore and space.
StemChars == {"a", "A", "-", "_", " "}
\* A stem that starts with a verb ('run'), one in gerund form that also
\* starts with a verb ('testing'), and stems with neither.
StemPrefixes == {<<>>, <<"r", "u", "n">>, <<"t", "e", "s", "t", "i", "n", "g">>}
LongStem == [i \in 1..(NameLimit + 1) |-> "a"]
Stems ==
    ({prefix \o tail : prefix \in StemPrefixes, tail \in SeqsUpTo(StemChars, MaxStemLen)}
        \ {<<>>}) \cup {LongStem}
GoodStem == <<"r", "u", "n">> \o <<"-", "a">>

Blocks == {"mapping", "no_frontmatter", "yaml_error", "empty", "list", "scalar"}

Chunk(fence, line) == [fence |-> fence, line |-> line]
Chunks == {Chunk(f, l) : f \in Fences, l \in BodyLines}
\* Bodies of one chunk, and of one chunk followed by a line of prose or by
\* a harmless shell block.
Followers ==
    {Chunk("text", "Validation: input is checked"), Chunk("text", "## Arguments"),
     Chunk("bash", "echo done")}
Bodies ==
    {<<>>} \cup {<<c>> : c \in Chunks} \cup {<<c, d>> : c \in Chunks, d \in Followers}

File(kind, stem, block, fm, body) ==
    [kind |-> kind, stem |-> stem, block |-> block,
     frontmatter |-> IF block = "mapping" THEN fm ELSE <<>>, body |-> body]

\* Command files: every name and block with plain metadata, every body with
\* every model and tool grant, every argument hint.
CommandFiles ==
    {File("command", stem, block, ("description" :> FixBug), body) :
        stem \in Stems, block \in Blocks,
        body \in {<<>>, <<Chunk("bash", "eval $ARGUMENTS")>>}}
      \cup
    {File("command", GoodStem, "mapping", d @@ m @@ a, body) :
        d \in OptionalKey("description", {FixBug}),
        m \in OptionalKey("model", ModelValues),
        a \in OptionalKey("allowed-tools", AllowedToolsValues),
        body \in Bodies}
      \cup
    {File("command", GoodStem, "mapping", fm, <<Chunk("sh", "rm -rf $1")>>) :
        fm \in CommandFrontmatters}

SkillDescriptions == {FixBug, <<"w", "h", "e", "n">>}
SkillFrontmatters(stem) ==
    {n @@ d @@ m @@ a :
        n \in OptionalKey("name", {stem, GoodStem}),
        d \in OptionalKey("description", SkillDescriptions),
        m \in OptionalKey("model", ModelValues),
        a \in OptionalKey("allowed-tools", {ToolStr(<<"Bash", "Shell">>)})}
Skills ==
    {File("skill", stem, block, ("name" :> stem) @@ ("description" :> FixBug), body) :
        stem \in Stems, block \in Blocks,
        body \in {<<>>, <<Chunk("text", "## Arguments")>>}}
      \cup
    UNION {{File("skill", stem, "mapping", fm, body) :
                fm \in SkillFrontmatters(stem),
                body \in {<<>>, <<Chunk("text", "echo done")>>,
                          <<Chunk("text", "Validation: input is checked")>>}} :
           stem \in {GoodStem, <<"t", "e", "s", "t", "i", "n", "g">>}}

\* What a migrator did with the artifact: "migrated" with the metadata and
\* change list of apply_all_migrations, "parse_failed" when the parse error
\* is caught and reported, "exception" when the run ends in an uncaught
\* exception.
Migration(status, fm, changes) ==
    [status |-> status, frontmatter |-> fm, changes |-> changes]

\* migrate-command.py: migrate_single_command up to the change list
migrate_single_command(file) ==
    CASE file.block \in {"no_frontmatter", "yaml_error"} ->
            Migration("parse_failed", <<>>, <<>>)
      \* 'model' in None raises TypeError outside the try
      [] file.block = "empty" -> Migration("exception", <<>>, <<>>)
      \* none of the three fields is in a list or string of other things
      [] file.block \in {"list", "scalar"} -> Migration("migrated", <<>>, <<>>)
      [] OTHER ->
            LET r == apply_all_migrations(file.frontmatter)
            IN  Migration("migrated", r.frontmatter, r.changes)

\* migrate-skill.py: migrate_single_skill up to the change list
migrate_single_skill(skill) ==
    CASE skill.block \in {"no_frontmatter", "yaml_error"} ->
            Migration("parse_failed", <<>>, <<>>)
      \* 'model' in None raises TypeError; a list or string has no .get
      [] skill.block \in {"empty", "list", "scalar"} ->
            Migration("exception", <<>>, <<>>)
      [] OTHER ->
            LET r == skill_apply_all_migrations(skill.frontmatter, skill.stem)
            IN  Migration("migrated", r.frontmatter, r.changes)

NotMigrated == Migration("not_run", <<>>, <<>>)

InitCheck ==
    /\ artifact \in CommandFiles \cup Skills
    /\ audit_result = NotRun
    /\ validate_result = Unchecked
    /\ migration = NotMigrated
    /\ ExceptCheckIdle

\* audit-commands.py examines the command
AuditCommand ==
    /\ artifact.kind = "command"
    /\ audit_result = NotRun
    /\ audit_result' = audit_validate_command(artifact)
    /\ UNCHANGED <<artifact, validate_result, migration>>
    /\ UNCHANGED exceptCheck

\* validate-command.py examines the command
ValidateCommand ==
    /\ artifact.kind = "command"
    /\ validate_result = Unchecked
    /\ validate_result' = validate_command(artifact)
    /\ UNCHANGED <<artifact, audit_result, migration>>
    /\ UNCHANGED exceptCheck

\* migrate-command.py computes the command's migration
MigrateCommand ==
    /\ artifact.kind = "command"
    /\ migration = NotMigrated
    /\ migration' = migrate_single_command(artifact)
    /\ UNCHANGED <<artifact, audit_result, validate_result>>
    /\ UNCHANGED exceptCheck

\* audit-skills.py examines the skill
AuditSkill ==
    /\ artifact.kind = "skill"
    /\ audit_result = NotRun
    /\ audit_result' = validate_skill(artifact)
    /\ UNCHANGED <<artifact, validate_result, migration>>
    /\ UNCHANGED exceptCheck

\* migrate-skill.py computes the skill's migration
MigrateSkill ==
    /\ artifact.kind = "skill"
    /\ migration = NotMigrated
    /\ migration' = migrate_single_skill(artifact)
    /\ UNCHANGED <<artifact, audit_result, validate_result>>
    /\ UNCHANGED exceptCheck

NextCheck ==
    \/ AuditCommand
    \/ ValidateCommand
    \/ MigrateCommand
    \/ AuditSkill
    \/ MigrateSkill

SpecCheck == InitCheck /\ [][NextCheck]_vars

Range(seq) == {seq[i] : i \in DOMAIN seq}
AuditReturned == audit_result.status \in {"errors", "warnings", "valid"}
ValidateReturned == validate_result.status = "returned"
HasEvalBlock(file) ==
    \E i \in DOMAIN file.body :
        file.body[i].fence \in {"bash", "sh"} /\ file.body[i].line = "eval $ARGUMENTS"

\* C5: for every command with well-formed metadata whose body holds a bash
\* or sh code block with `eval $ARGUMENTS`, audit-commands and
\* validate-command each report the eval security finding as critical,
\* whatever allowed-tools holds and whether or not it is present.
C5_EvalAlwaysCritical ==
    (artifact.kind = "command" /\ artifact.block = "mapping" /\ HasEvalBlock(artifact))
        => /\ AuditReturned =>
                "SECURITY: Using eval with arguments is dangerous"
                    \in Range(audit_result.critical_errors)
           /\ ValidateReturned =>
                \E e \in Range(critical_errors(validate_result)) :
                    e.prefix = "SECURITY ERROR:"

\* C6: for every command whose model is haiku, sonnet, opus or inherit,
\* audit-commands gives status errors with the short-alias finding among
\* its critical errors, validate-command returns invalid with the
\* short-alias entry among its critical errors, and the migrator's metadata
\* carries claude-<tier>-4-5 for the three tiers and no model for inherit.
C6_ShortAliasRejectedAndRewritten ==
    (/\ artifact.kind = "command"
     /\ artifact.block = "mapping"
     /\ "model" \in DOMAIN artifact.frontmatter
     /\ artifact.frontmatter["model"] \in {"haiku", "sonnet", "opus", "inherit"})
        => /\ audit_result # NotRun =>
                /\ audit_result.status = "errors"
                /\ "CRITICAL: Commands cannot use short alias"
                       \in Range(audit_result.critical_errors)
           /\ validate_result # Unchecked =>
                /\ ValidateReturned /\ ~validate_result.is_valid
                /\ Entry("CRITICAL ERROR:", "Commands cannot use short aliases")
                       \in Range(critical_errors(validate_result))
           /\ migration # NotMigrated =>
                /\ migration.status = "migrated"
                /\ artifact.frontmatter["model"] = "haiku" =>
                       migration.frontmatter["model"] = "claude-haiku-4-5"
                /\ artifact.frontmatter["model"] = "sonnet" =>
                       migration.frontmatter["model"] = "claude-sonnet-4-5"
                /\ artifact.frontmatter["model"] = "opus" =>
                       migration.frontmatter["model"] = "claude-opus-4-5"
                /\ artifact.frontmatter["model"] = "inherit" =>
                       "model" \notin DOMAIN migration.frontmatter
                /\ migration.changes # <<>>

\* A command with model inherit that both validators and the migrator have
\* processed.
C6_Witness ==
    /\ artifact # <<>>
    /\ artifact.kind = "command"
    /\ "model" \in DOMAIN artifact.frontmatter
    /\ artifact.frontmatter["model"] = "inherit"
    /\ audit_result.status = "errors"
    /\ ValidateReturned /\ ~validate_result.is_valid
    /\ migration.status = "migrated"
    /\ "model" \notin DOMAIN migration.frontmatter

\* C7: for every skill whose metadata holds a model field, whatever its
\* value, audit-skills gives status errors with the model-field finding
\* among its critical errors, and the migrator's metadata has no model field
\* and its change list records the removal.
C7_SkillModelRejectedAndRemoved ==
    (/\ artifact.kind = "skill"
     /\ artifact.block = "mapping"
     /\ "model" \in DOMAIN artifact.frontmatter)
        => /\ audit_result # NotRun =>
                /\ audit_result.status = "errors"
                /\ "CRITICAL: Skills cannot have 'model' field"
                       \in Range(audit_result.critical_errors)
           /\ migration # NotMigrated =>
                /\ migration.status = "migrated"
                /\ "model" \notin DOMAIN migration.frontmatter
                /\ "CRITICAL: Removed 'model' field" \in Range(migration.changes)
                /\ migration.frontmatter = DictDel(artifact.frontmatter, "model")

\* A skill with a model that is not a short alias, audited and migrated.
C7_Witness ==
    /\ artifact # <<>>
    /\ artifact.kind = "skill"
    /\ "model" \in DOMAIN artifact.frontmatter
    /\ artifact.frontmatter["model"] = "gpt-4"
    /\ audit_result.status = "errors"
    /\ migration.status = "migrated"

BadIdentity(stem) == \E i \in DOMAIN stem : stem[i] \in {"A", " ", "_"}

\* C8: for every command file stem or skill directory name that holds an
\* uppercase character, a space or an underscore, the naming check yields at
\* least one critical finding: the audits' naming findings are not empty and
\* are among the critical errors whenever the audit got as far as grading
\* the artifact, and validate-command's result holds a critical naming entry
\* whenever it returns.
C8_BadIdentityIsCritical ==
    (artifact # <<>> /\ BadIdentity(artifact.stem))
        => /\ AuditNaming(artifact.stem, "filename") # <<>>
           /\ AuditReturned =>
                /\ audit_result.status = "errors"
                /\ \E what \in {"filename", "directory name"} :
                       Range(AuditNaming(artifact.stem, what))
                           \cap Range(audit_result.critical_errors) # {}
           /\ ValidateReturned =>
                /\ ~validate_result.is_valid
                /\ \E e \in Range(critical_errors(validate_result)) :
                       e \in Range(ValidateNaming(artifact.stem))

\* A command whose stem holds an uppercase letter and no underscore, judged
\* by both command validators.
C8_Witness ==
    /\ artifact # <<>>
    /\ artifact.kind = "command"
    /\ \E i \in DOMAIN artifact.stem : artifact.stem[i] = "A"
    /\ \A i \in DOMAIN artifact.stem : artifact.stem[i] # "_"
    /\ AuditReturned
    /\ ValidateReturned

\* The scenario command: a lowercase-hyphen, verb-first name and metadata
\* that is exactly description "fix bug" and model haiku.
FixBugHaiku ==
    /\ artifact.kind = "command"
    /\ artifact.block = "mapping"
    /\ MatchesLowerHyphen(artifact.stem)
    /\ Len(artifact.stem) <= NameLimit
    /\ VerbFirst(artifact.stem, audit_common_verbs)
    /\ artifact.frontmatter = ("description" :> FixBug) @@ ("model" :> "haiku")

LengthWarnings(warnings) ==
    LET about_length(w) == w \in {"Description too short (< 10 chars)",
                                  "Description too long (> 200 chars)"}
    IN  SelectSeq(warnings, about_length)

ScenarioMigration ==
    migration # NotMigrated =>
        /\ migration.status = "migrated"
        /\ migration.frontmatter =
               ("description" :> FixBug) @@ ("model" :> "claude-haiku-4-5")
        /\ migration.changes = <<"Migrated model">>

\* C15 as stated: for the scenario command the audit yields exactly one
\* critical finding, the short model alias, and no warning about the length
\* of the description; the migrator changes model to claude-haiku-4-5 and
\* records exactly that one change.
C15_ScenarioNoLengthWarning ==
    FixBugHaiku =>
        /\ AuditReturned =>
              /\ audit_result.critical_errors = <<"CRITICAL: Commands cannot use short alias">>
              /\ LengthWarnings(audit_result.warnings) = <<>>
        /\ ScenarioMigration

\* C15 amended: for the scenario command the audit yields exactly one
\* critical finding, the short model alias, and exactly one warning about
\* the length of the description, "too short", "fix bug" being 7 characters
\* long; the migrator changes model to claude-haiku-4-5 and records exactly
\* that one change.
C15_ScenarioOneCritical ==
    FixBugHaiku =>
        /\ AuditReturned =>
              /\ audit_result.critical_errors = <<"CRITICAL: Commands cannot use short alias">>
              /\ LengthWarnings(audit_result.warnings)
                     = <<"Description too short (< 10 chars)">>
        /\ ScenarioMigration

\* The scenario command, audited and migrated.
C15_Witness ==
    FixBugHaiku /\ AuditReturned /\ migration # NotMigrated

(***************************************************************************)
(* audit-commands.py and audit-skills.py: main() over a batch of files.    *)
(***************************************************************************)
\* Files a batch is drawn from: two that parse (one of them with a short
\* model alias) and one for each way a metadata block can be malformed.  The
\* body matters for a list or scalar block only.
BatchFiles(kind) ==
    {File(kind, GoodStem, "mapping", fm, <<Chunk("text", "echo done")>>) :
        fm \in {("name" :> GoodStem) @@ ("description" :> FixBug),
                ("name" :> GoodStem) @@ ("description" :> FixBug) @@ ("model" :> "haiku")}}
      \cup
    {File(kind, GoodStem, block, <<>>, <<>>) : block \in Blocks \ {"mapping"}}
      \cup
    {File(kind, GoodStem, block, <<>>, <<Chunk("text", "echo done")>>) :
        block \in {"list", "scalar"}}

Batches == UNION {SeqsUpTo(BatchFiles(kind), MaxBatch) : kind \in {"command", "skill"}}

\* validate_command or validate_skill, by the audit that is running
Validator(file) ==
    IF file.kind = "command" THEN audit_validate_command(file) ELSE validate_skill(file)

InitAudit ==
    /\ batch \in Batches
    /\ results = <<>>
    /\ audit_pc = "scan"
    /\ exit_code = 0
    /\ ExceptBatchIdle

\* "No command files found": exit 0
NoFilesFound ==
    /\ audit_pc = "scan"
    /\ batch = <<>>
    /\ audit_pc' = "done"
    /\ exit_code' = 0
    /\ UNCHANGED <<batch, results>>
    /\ UNCHANGED exceptBatch

\* One turn of the loop over the files.  An exception raised by the
\* validator is caught nowhere: it ends the process with a traceback.
ScanFile ==
    /\ audit_pc = "scan"
    /\ Len(results) < Len(batch)
    /\ LET r == Validator(batch[Len(results) + 1])
       IN  IF r.status = "exception"
           THEN /\ audit_pc' = "crashed"
                /\ exit_code' = 1
                /\ UNCHANGED results
           ELSE /\ results' = Append(results, r)
                /\ UNCHANGED <<audit_pc, exit_code>>
    /\ UNCHANGED batch
    /\ UNCHANGED exceptBatch

\* print_report and the exit code
Report ==
    /\ audit_pc = "scan"
    /\ batch # <<>>
    /\ Len(results) = Len(batch)
    /\ audit_pc' = "done"
    /\ exit_code' =
         IF \E i \in DOMAIN results : results[i].status \in {"errors", "parse_error"}
         THEN 1 ELSE 0
    /\ UNCHANGED <<batch, results>>
    /\ UNCHANGED exceptBatch

NextAudit ==
    \/ NoFilesFound
    \/ ScanFile
    \/ Report

SpecAudit == InitAudit /\ [][NextAudit]_vars

Malformed(file) == file.block # "mapping"
ExactlyOneMalformed ==
    Cardinality({i \in DOMAIN batch : Malformed(batch[i])}) = 1

\* C4: when exactly one file of the batch has a malformed metadata block
\* (no delimiters, a YAML error, an empty block or a block that is not a
\* mapping), the audit does not end in an uncaught exception, and once it
\* has ended every file has a result, the malformed file's status is
\* parse_error and no other file's is.
C4_BatchIsolation ==
    (audit_pc # "" /\ ExactlyOneMalformed)
        => /\ audit_pc # "crashed"
           /\ audit_pc = "done" =>
                /\ Len(results) = Len(batch)
                /\ \A i \in DOMAIN results :
                       results[i].status = "parse_error" <=> Malformed(batch[i])

(***************************************************************************)
(* The backup-and-write tail of the migrate-* and update-* scripts.        *)
(*                                                                         *)
(* A file is [text, eol]: what it says and the line ending its bytes use.  *)
(* Path.rename and shutil.copy2 move and copy bytes.  Path.read_text       *)
(* decodes with universal newlines, so the string it returns has lost the  *)
(* file's line ending, and Path.write_text writes every newline of the     *)
(* string as os.linesep.                                                   *)
(***************************************************************************)
Scripts ==
    {"migrate-command", "migrate-skill", "migrate-agent", "migrate-hook",
     "update-command", "update-skill", "update-hook"}
\* file_path.rename(backup_path)
RenameScripts == {"migrate-command", "migrate-skill", "update-command", "update-skill"}
\* shutil.copy2(hooks_file, backup_path), and the only scripts that wrap the
\* write in try/except
CopyScripts == {"migrate-hook", "update-hook"}
\* every script but migrate-hook asks before it writes
PromptScripts == Scripts \ {"migrate-hook"}

Absent == [text |-> "absent", eol |-> "none"]
linesep(os) == IF os = "windows" THEN "CRLF" ELSE "LF"
read_text(file) == file.text
write_text(text, os) == [text |-> text, eol |-> linesep(os)]

InitWriter ==
    /\ script \in Scripts
    /\ platform \in {"posix", "windows"}
    /\ prior \in {[text |-> "original", eol |-> e] : e \in {"LF", "CRLF"}}
    /\ target = prior
    /\ backup \in {Absent, [text |-> "stale", eol |-> "LF"]}
    /\ writer_pc = IF script \in PromptScripts THEN "prompt" ELSE "backup"
    /\ ExceptWriterIdle

\* input("Apply ...? (y/n)")
Confirm ==
    /\ writer_pc = "prompt"
    /\ \E answer \in {"y", "n"} :
          writer_pc' = IF answer = "y" THEN "backup" ELSE "cancelled"
    /\ UNCHANGED <<script, platform, prior, target, backup>>
    /\ UNCHANGED exceptWriter

\* The backup statement.  Path.rename onto an existing file raises
\* FileExistsError on Windows and replaces the file elsewhere.
Backup ==
    /\ writer_pc = "backup"
    /\ IF script \in RenameScripts
       THEN IF platform = "windows" /\ backup # Absent
            THEN /\ writer_pc' = "aborted"
                 /\ UNCHANGED <<target, backup>>
            ELSE /\ backup' = target
                 /\ target' = Absent
                 /\ writer_pc' = "write"
       ELSE /\ backup' = IF script \in CopyScripts
                         THEN target
                         ELSE write_text(read_text(target), platform)
            /\ writer_pc' = "write"
            /\ UNCHANGED target
    /\ UNCHANGED <<script, platform, prior>>
    /\ UNCHANGED exceptWriter

\* write_text(new_content) succeeds
Write ==
    /\ writer_pc = "write"
    /\ target' = write_text("new", platform)
    /\ writer_pc' = "done"
    /\ UNCHANGED <<script, platform, prior, backup>>
    /\ UNCHANGED exceptWriter

\* write_text(new_content) raises: at open(), leaving the path as it was, or
\* later, leaving a truncated file
WriteFails ==
    /\ writer_pc = "write"
    /\ \E left \in {target, write_text("truncated", platform)} : target' = left
    /\ writer_pc' = "failed"
    /\ UNCHANGED <<script, platform, prior, backup>>
    /\ UNCHANGED exceptWriter

\* except Exception: shutil.copy2(backup_path, hooks_file); sys.exit(1)
Restore ==
    /\ writer_pc = "failed"
    /\ script \in CopyScripts
    /\ target' = backup
    /\ writer_pc' = "error"
    /\ UNCHANGED <<script, platform, prior, backup>>
    /\ UNCHANGED exceptWriter

\* no handler around the write: the exception ends the script
Propagate ==
    /\ writer_pc = "failed"
    /\ script \notin CopyScripts
    /\ writer_pc' = "error"
    /\ UNCHANGED <<script, platform, prior, target, backup>>
    /\ UNCHANGED exceptWriter

NextWriter ==
    \/ Confirm
    \/ Backup
    \/ Write
    \/ WriteFails
    \/ Restore
    \/ Propagate

SpecWriter == InitWriter /\ [][NextWriter]_vars

\* C9: in each of the seven scripts, when the new content is about to be
\* written the backup file holds exactly the content the artifact had
\* before the script touched it.
C9_BackupHoldsPriorContent ==
    writer_pc = "write" => backup = prior

\* C10: in every migrate-* and update-* script, once a failed write has
\* been reported to the user the artifact path exists and holds the
\* original content.
C10_FailedWriteIsRestored ==
    writer_pc = "error" => target = prior

(***************************************************************************)
(* One run of migrate-command.py, migrate-skill.py or migrate-hook.py on a *)
(* well-formed artifact: compute the migration, ask where the script asks, *)
(* back up and write.                                                      *)
(***************************************************************************)
MissingFile == [exists |-> FALSE, content |-> <<>>]
OnDisk(content) == [exists |-> TRUE, content |-> content]
Invocation(name, dry, stem) == [script |-> name, dry_run |-> dry, stem |-> stem]

\* A test that takes every entry for a critical change.
SkillCriticalAny(c) == TRUE

\* c.startswith('CRITICAL') on the entries migrate-skill.py produces
SkillCritical(c) == c = "CRITICAL: Removed 'model' field"
\* c.startswith('ERROR:') on the entries migrate-hook.py produces
HookError(c) ==
    c.kind \in {"ERROR: Invalid type", "ERROR: Missing 'command' field",
                "ERROR: Missing 'prompt' field"}

\* Metadata the runs start from.
RunCommandInputs ==
    {("description" :> FixBug) @@ m @@ t :
        m \in OptionalKey("model", ModelValues),
        t \in OptionalKey("tools", ToolsValues)}
RunSkillInputs == SkillFrontmatters(GoodStem)

InitRun ==
    /\ \E dry \in BOOLEAN :
          \/ /\ run = Invocation("migrate-command", dry, GoodStem)
             /\ disk_file \in {OnDisk(fm) : fm \in RunCommandInputs}
          \/ /\ run \in {Invocation("migrate-skill", dry, stem) :
                            stem \in {GoodStem, <<"t", "e", "s", "t", "i", "n", "g">>}}
             /\ disk_file \in {OnDisk(fm) : fm \in RunSkillInputs}
          \/ /\ run = Invocation("migrate-hook", dry, <<>>)
             /\ disk_file \in {OnDisk(cfg) : cfg \in HookConfigs}
    /\ disk_backup = MissingFile
    /\ pending = <<>>
    /\ run_changes = <<>>
    /\ confirmed = FALSE
    /\ run_pc = "start"
    /\ run_exit = 0
    /\ ExceptRunIdle

\* migrate_single_command up to the prompt
ComputeCommandMigration ==
    /\ run_pc = "start"
    /\ run.script = "migrate-command"
    /\ LET r == apply_all_migrations(disk_file.content)
       IN  /\ pending' = r.frontmatter
           /\ run_changes' = r.changes
           /\ run_pc' = IF r.changes = <<>> \/ run.dry_run THEN "exit" ELSE "prompt"
    /\ run_exit' = 0
    /\ UNCHANGED <<run, disk_file, disk_backup, confirmed>>
    /\ UNCHANGED exceptRun

\* migrate_single_skill up to the prompt: without a CRITICAL change the
\* function returns before it looks at dry_run
ComputeSkillMigration ==
    /\ run_pc = "start"
    /\ run.script = "migrate-skill"
    /\ LET r == skill_apply_all_migrations(disk_file.content, run.stem)
           critical_changes == SelectSeq(r.changes, SkillCritical)
       IN  /\ pending' = r.frontmatter
           /\ run_changes' = r.changes
           /\ run_pc' = IF critical_changes = <<>> \/ run.dry_run
                        THEN "exit" ELSE "prompt"
    /\ run_exit' = 0
    /\ UNCHANGED <<run, disk_file, disk_backup, confirmed>>
    /\ UNCHANGED exceptRun

\* migrate-hook.py main up to "Save changes": exit 0 when the working copy
\* equals the original, and the end of main (exit 0) in a dry run
ComputeHookMigration ==
    /\ run_pc = "start"
    /\ run.script = "migrate-hook"
    /\ LET r == RunHookMigrations(disk_file.content)
           has_changes == r.config # disk_file.content
       IN  /\ pending' = r.config
           /\ run_changes' = r.changes
           /\ run_pc' = IF ~has_changes \/ run.dry_run THEN "exit" ELSE "persist"
    /\ run_exit' = 0
    /\ UNCHANGED <<run, disk_file, disk_backup, confirmed>>
    /\ UNCHANGED exceptRun

\* confirm = input("Apply migration? (y/n): ")
AnswerPrompt ==
    /\ run_pc = "prompt"
    /\ \E answer \in {"y", "n"} :
          /\ confirmed' = (answer = "y")
          /\ run_pc' = IF answer = "y" THEN "persist" ELSE "exit"
    /\ UNCHANGED <<run, disk_file, disk_backup, pending, run_changes, run_exit>>
    /\ UNCHANGED exceptRun

\* the backup and the write; migrate-hook exits 1 after a write whose change
\* list holds an ERROR entry
Persist ==
    /\ run_pc = "persist"
    /\ disk_backup' = disk_file
    /\ disk_file' = OnDisk(pending)
    /\ run_exit' =
         IF run.script = "migrate-hook"
              /\ \E k \in DOMAIN run_changes : HookError(run_changes[k])
         THEN 1 ELSE 0
    /\ run_pc' = "exit"
    /\ UNCHANGED <<run, pending, run_changes, confirmed>>
    /\ UNCHANGED exceptRun

NextRun ==
    \/ ComputeCommandMigration
    \/ ComputeSkillMigration
    \/ ComputeHookMigration
    \/ AnswerPrompt
    \/ Persist

SpecRun == InitRun /\ [][NextRun]_vars

\* C11: a migration script changes the artifact file or its backup only in
\* a step taken in apply mode after the user has confirmed at a prompt.
C11_WriteOnlyWhenConfirmed ==
    [][(disk_file' # disk_file \/ disk_backup' # disk_backup)
          => (~run.dry_run /\ confirmed)]_vars

\* Entries that only advise: RECOMMENDATION (skills), RECOMMEND and
\* WARNING (hooks).
AdvisoryOnly ==
    \A k \in DOMAIN run_changes :
        CASE run.script = "migrate-skill" ->
                run_changes[k] \in {"RECOMMENDATION: Consider gerund form",
                                    "RECOMMENDATION: Description should state WHEN"}
          [] run.script = "migrate-hook" ->
                run_changes[k].kind \in {"WARNING", "RECOMMEND"}
          [] OTHER -> FALSE

\* C20: the gerund-form, description-trigger and script-path rules return
\* the metadata they were given, and a run whose change list holds only
\* advisory entries never reaches the prompt or the write and never changes
\* the artifact file or the backup, in dry-run or apply mode.
C20_AdvisoryNeverMutates ==
    /\ [](run_pc = "start" =>
            /\ run.script = "migrate-skill" =>
                 /\ migrate_gerund_form_recommendation(disk_file.content, run.stem)
                        .frontmatter = disk_file.content
                 /\ migrate_description_triggers(disk_file.content).frontmatter
                        = disk_file.content
            /\ run.script = "migrate-hook" =>
                 migrate_normalize_script_paths(disk_file.content).config
                     = disk_file.content)
    /\ []((run_pc \in {"prompt", "persist", "exit"} /\ AdvisoryOnly) =>
            /\ run_pc = "exit"
            /\ pending = disk_file.content
            /\ disk_backup = MissingFile)
    /\ [][(disk_file' # disk_file \/ disk_backup' # disk_backup)
             => ~AdvisoryOnly]_vars

\* An apply-mode skill run that ended with recommendations only.
C20_Witness ==
    /\ run_pc = "exit"
    /\ run.script = "migrate-skill"
    /\ ~run.dry_run
    /\ run_changes # <<>>
    /\ AdvisoryOnly
    /\ disk_backup = MissingFile


(***************************************************************************)
(* audit-hooks.py: the bulk audit of hooks.json files.  Each file is       *)
(* loaded as JSON and then handed to validate-hooks.py in a subprocess;    *)
(* when that script is not found, main falls back to a structure check.    *)
(* What the subprocess does is an input: how it ended, its return code and *)
(* the words of its output.                                                *)
(***************************************************************************)
\* One run of the validator subprocess.
Subprocess(ended, returncode, output) ==
    [ended |-> ended, returncode |-> returncode, output |-> output]

\* run_validation: (is_valid, output).
run_validation(proc) ==
    CASE proc.ended = "timeout" ->
           [is_valid |-> FALSE, output |-> <<"Validation", "timed", "out">>]
      [] proc.ended = "exception" ->
           [is_valid |-> FALSE, output |-> <<"Validation", "failed:">> \o proc.output]
      [] OTHER ->
           [is_valid |-> proc.returncode = 0, output |-> proc.output]

\* The two emoji the validator's output is searched for.
CrossMark == "[x]"
WarningSign == "[!]"

\* str.count of a one-word and of a two-word marker in the output.
CountWord(output, w) == Cardinality({i \in 1..Len(output) : output[i] = w})
CountPair(output, w1, w2) ==
    Cardinality({i \in 1..(Len(output) - 1) : output[i] = w1 /\ output[i + 1] = w2})

\* count_security_issues: (critical, warnings).
count_security_issues(output) ==
    [critical |-> CountPair(output, CrossMark, "CRITICAL:") + CountWord(output, "CRITICAL:"),
     warnings |-> CountWord(output, WarningSign) + CountWord(output, "WARNING:")]

\* A hooks.json file: whether it decodes as JSON, whether the decoded value
\* carries a 'hooks' mapping of well-formed groups, and what the validator
\* subprocess does when it is run on it.
HooksFile(json, structure, proc) == [json |-> json, structure |-> structure, proc |-> proc]

ValidatorRuns ==
    {Subprocess("exit", 0, <<>>),
     Subprocess("exit", 0, <<WarningSign, "WARNING:", "no", "timeout">>),
     Subprocess("exit", 1, <<CrossMark, "CRITICAL:", "eval">>),
     Subprocess("exit", 1, <<"CRITICAL:", "eval", WarningSign, "no", "timeout">>),
     Subprocess("exit", 1, <<"WARNING:", "no", "timeout">>),
     Subprocess("exit", 1, <<"ERROR:", "unknown", "event">>),
     Subprocess("timeout", 0, <<>>),
     Subprocess("exception", 0, <<"python3", "not", "found">>)}

ValidatedFiles ==
    {HooksFile("invalid", "none", Subprocess("exit", 1, <<>>))}
        \cup {HooksFile("object", "mapping", proc) : proc \in ValidatorRuns}

UnvalidatedFiles ==
    {HooksFile(json, structure, Subprocess("exit", 0, <<>>)) :
        json \in {"object"}, structure \in {"mapping", "other"}}
        \cup {HooksFile("invalid", "none", Subprocess("exit", 0, <<>>))}

NoBuckets == [valid |-> <<>>, warnings |-> <<>>, errors |-> <<>>, parse_errors |-> <<>>]

InitAuditHooks ==
    /\ has_validator \in BOOLEAN
    /\ hooks_files \in SeqsUpTo(IF has_validator THEN ValidatedFiles
                                ELSE UnvalidatedFiles, MaxBatch)
    /\ audited = 0
    /\ buckets = NoBuckets
    /\ hooks_pc = "scan"
    /\ hooks_exit = 0
    /\ ExceptHooksAuditIdle

\* main, lines 91-93: nothing to audit.
NoHooksFilesFound ==
    /\ hooks_pc = "scan"
    /\ hooks_files = <<>>
    /\ hooks_pc' = "done"
    /\ hooks_exit' = 0
    /\ UNCHANGED <<hooks_files, has_validator, audited, buckets>>
    /\ UNCHANGED exceptHooksAudit

\* The bucket, if any, that one iteration of main's loop appends the file to.
BucketOf(file, validator) ==
    IF file.json = "invalid" THEN "parse_errors"
    ELSE IF validator
         THEN LET ran == run_validation(file.proc)
                  counted == count_security_issues(ran.output)
              IN  IF ran.is_valid THEN "valid"
                  ELSE IF counted.critical > 0 THEN "errors"
                  ELSE IF counted.warnings > 0 THEN "warnings"
                  ELSE "none"
         ELSE IF file.structure = "mapping" THEN "valid" ELSE "errors"

\* main, lines 106-156: one iteration of the loop over the files.
AuditHooksFile ==
    /\ hooks_pc = "scan"
    /\ audited < Len(hooks_files)
    /\ LET i == audited + 1
           bucket == BucketOf(hooks_files[i], has_validator)
       IN  /\ audited' = i
           /\ buckets' = IF bucket = "none" THEN buckets
                         ELSE [buckets EXCEPT ![bucket] = Append(@, i)]
    /\ UNCHANGED <<hooks_files, has_validator, hooks_pc, hooks_exit>>
    /\ UNCHANGED exceptHooksAudit

\* main, lines 158-194: the summary and the exit code.
HooksSummary ==
    /\ hooks_pc = "scan"
    /\ hooks_files # <<>>
    /\ audited = Len(hooks_files)
    /\ hooks_pc' = "done"
    /\ hooks_exit' = IF Len(buckets.errors) > 0 \/ Len(buckets.parse_errors) > 0
                     THEN 1 ELSE 0
    /\ UNCHANGED <<hooks_files, has_validator, audited, buckets>>
    /\ UNCHANGED exceptHooksAudit

NextAuditHooks == NoHooksFilesFound \/ AuditHooksFile \/ HooksSummary

SpecAuditHooks == InitAuditHooks /\ [][NextAuditHooks]_vars

\* A hooks file whose audit ended in a critical finding, an error or a parse
\* failure: it does not decode, the validator could not be run to its end, or
\* the validator ended non-zero with anything but warnings to show for it.
HooksFileFailed(file) ==
    \/ file.json = "invalid"
    \/ /\ has_validator
       /\ LET ran == run_validation(file.proc)
              counted == count_security_issues(ran.output)
          IN  /\ ~ran.is_valid
              /\ counted.critical > 0 \/ counted.warnings = 0
    \/ ~has_validator /\ file.structure # "mapping"

BucketSizes ==
    Len(buckets.valid) + Len(buckets.warnings) + Len(buckets.errors)
        + Len(buckets.parse_errors)
Recorded(i) ==
    Cardinality({b \in {"valid", "warnings", "errors", "parse_errors"} :
                    \E k \in DOMAIN buckets[b] : buckets[b][k] = i})

\* C30: every hooks file the loop has been through is recorded in exactly
\* one of the four result lists, so the four sizes sum to the number of
\* files audited.
C30_EveryFileInOneBucket ==
    /\ \A i \in 1..audited : Recorded(i) = 1
    /\ BucketSizes = audited

\* C12: a finished hooks audit exits 1 when at least one file of the batch has
\* a critical finding, an error or a parse failure, and 0 when every file is
\* clean or has warnings only.
C12_AuditExitCode ==
    hooks_pc = "done" =>
        (hooks_exit = 1 <=> \E i \in 1..Len(hooks_files) : HooksFileFailed(hooks_files[i]))


(***************************************************************************)
(* enhance-command.py: six analyses of one command file, each with a score *)
(* and a list of findings, and an exit code taken from the mean score.     *)
(* A body is a sequence of lines; the sets below say which line matches    *)
(* which of the script's patterns.  In a line, ~ stands for a backtick.    *)
(***************************************************************************)
Document ==
    <<"## Workflow", "## Example", "## Example: dry run", "## Arguments",
      "- run ~git status $1~", "~~~bash", "echo $ARGUMENTS | sh", "~~~",
      "**Input validation** is required", "password = hunter2",
      "(one paragraph of sixty words on a single line)">>

DocPositional == {"- run ~git status $1~"}            \* \$\d+
DocAllArgs == {"echo $ARGUMENTS | sh"}                \* '$ARGUMENTS'
DocArgumentsLiteral == {"## Arguments"}               \* '## Arguments', '## Parameters'
DocValidation == {"**Input validation** is required"} \* 'validation' / 'sanitize', lowered
DocInjection == {"echo $ARGUMENTS | sh"}              \* \$\w+\s*(?:&&|\||;|backtick)
DocRmVariable == {}                                   \* rm\s+-rf\s+\$
DocEval == {}                                         \* eval\s+\$
DocArgsChain == {"echo $ARGUMENTS | sh"}              \* \$ARGUMENTS.*(?:&&|\||;)
DocSecret == {"password = hunter2"}                   \* a secret pattern, no 'example' after it
DocWorkflow == {"## Workflow"}                        \* ##\s*(?:workflow|steps?|process)
DocExample == {"## Example", "## Example: dry run"}   \* ##\s*(?:example|usage), ##\s*example
DocArguments == {"## Arguments"}                      \* ##\s*(?:arguments|parameters)
DocHeading == {"## Workflow", "## Example", "## Example: dry run", "## Arguments"}
DocList == {"- run ~git status $1~"}                  \* ^\s*[-*]\s+
DocFence == {"~~~bash", "~~~"}                        \* one run of three backticks each
DocBold == {"**Input validation** is required"}       \* \*\*.*?\*\*
DocInlineCode == {"- run ~git status $1~", "~~~bash", "~~~"}   \* a backtick, .*?, a backtick
DocLong == {"(one paragraph of sixty words on a single line)"} \* len(line) > 120

\* len(line.split())
DocWords(line) ==
    CASE line \in DocLong -> 60
      [] line \in {"~~~bash", "~~~"} -> 1
      [] line \in {"## Workflow", "## Example", "## Arguments"} -> 2
      [] line = "password = hunter2" -> 3
      [] line = "- run ~git status $1~" -> 5
      [] OTHER -> 4

DocCount(body, lines) == Cardinality({i \in DOMAIN body : body[i] \in lines})
DocHas(body, lines) == DocCount(body, lines) > 0
RECURSIVE WordCount(_)
WordCount(body) == IF body = <<>> THEN 0 ELSE DocWords(Head(body)) + WordCount(Tail(body))

\* A finding: its leading mark ("x" for the cross, "warn", "tip", "ok") and text.
Finding(mark, text) == [mark |-> mark, text |-> text]
Marked(findings, marks) == \E i \in DOMAIN findings : findings[i].mark \in marks
Analysis(score, findings) == [score |-> score, findings |-> findings]
Max(a, b) == IF a > b THEN a ELSE b
Least(a, b) == IF a < b THEN a ELSE b

analyze_schema(fm, command_name) ==
    LET short == "description" \in DOMAIN fm /\ Len(fm["description"]) < 10
        long == "description" \in DOMAIN fm /\ Len(fm["description"]) > 200
        verb == VerbFirst(command_name, audit_common_verbs)
        score == (IF Len(command_name) > NameLimit THEN 0 ELSE 2)
                 + (IF verb THEN 2 ELSE 0)
                 + (IF "description" \in DOMAIN fm THEN 3 ELSE 0)
                 + (IF "description" \in DOMAIN fm /\ ~short /\ ~long THEN 1 ELSE 0)
                 + (IF "allowed-tools" \in DOMAIN fm THEN 2 ELSE 0)
    IN  Analysis(Least(score, 10),
            When(~MatchesLowerHyphen(command_name),
                 Finding("warn", "Command filename doesn't follow lowercase-hyphen convention"))
            \o When(Len(command_name) > NameLimit,
                 Finding("warn", "Command name exceeds 64 character limit"))
            \o When(~verb, Finding("warn", "Command name should start with a verb"))
            \o When(short, Finding("warn", "Description too short"))
            \o When(long, Finding("warn", "Description too long"))
            \o When("description" \notin DOMAIN fm,
                 Finding("x", "Missing required 'description' field"))
            \o When("allowed-tools" \notin DOMAIN fm,
                 Finding("tip", "Consider adding 'allowed-tools'")))

analyze_model_field(fm) ==
    IF "model" \notin DOMAIN fm
    THEN Analysis(10, <<Finding("ok", "Using inherited model (recommended)")>>)
    ELSE IF fm["model"] \in short_aliases
    THEN Analysis(0, <<Finding("x", "CRITICAL: Commands cannot use short alias")>>)
    ELSE IF ~StartsWithClaude(fm["model"])
    THEN Analysis(7, <<Finding("warn", "Model doesn't start with 'claude-'")>>)
    ELSE Analysis(10, <<Finding("ok", "Valid model format"),
                        Finding("ok", "Using version alias")>>)

analyze_arguments(fm, body) ==
    LET uses_positional == DocHas(body, DocPositional)
        uses_all_args == DocHas(body, DocAllArgs)
        hinted == "argument-hint" \in DOMAIN fm
        hint == IF ~hinted THEN <<>>
                ELSE IF fm["argument-hint"].isList
                THEN JoinWith(<<" ">>, fm["argument-hint"].list)
                ELSE fm["argument-hint"].str
        documented == DocHas(body, DocArgumentsLiteral)
    IN  IF uses_positional \/ uses_all_args
        THEN Analysis(
               Max(10 - (IF ~hinted THEN 3 ELSE IF ~StartsWithBracket(hint) THEN 1 ELSE 0)
                      - (IF documented THEN 0 ELSE 2), 0),
               (IF ~hinted
                THEN <<Finding("x", "Uses arguments but missing 'argument-hint' field")>>
                ELSE IF ~StartsWithBracket(hint)
                THEN <<Finding("warn", "argument-hint should use brackets")>>
                ELSE <<Finding("ok", "Has clear argument-hint")>>)
               \o (IF documented THEN <<Finding("ok", "Documents arguments in body")>>
                   ELSE <<Finding("warn", "Missing '## Arguments' section")>>)
               \o When(uses_positional, Finding("tip", "Uses positional arguments"))
               \o When(uses_all_args, Finding("tip", "Uses $ARGUMENTS variable")))
        ELSE IF hinted
        THEN Analysis(9, <<Finding("warn", "Has 'argument-hint' but doesn't use arguments")>>)
        ELSE Analysis(10, <<Finding("ok", "No arguments (simple command)")>>)

analyze_security(fm, body) ==
    LET bash == BashAllowed(fm)
        undocumented == bash /\ ~DocHas(body, DocValidation)
        injection == bash /\ DocHas(body, DocInjection)
        rm == bash /\ DocHas(body, DocRmVariable)
        eval == bash /\ DocHas(body, DocEval)
        chain == bash /\ DocHas(body, DocArgsChain)
        secret == DocHas(body, DocSecret)
        many == "allowed-tools" \in DOMAIN fm /\ Len(fm["allowed-tools"].items) > 6
        penalty(cond, n) == IF cond THEN n ELSE 0
        found ==
            When(bash, Finding("warn", "Has Bash access - requires careful input validation"))
            \o When(undocumented,
                    Finding("x", "Has Bash access without input validation documentation"))
            \o When(injection, Finding("warn", "Potential command injection"))
            \o When(rm, Finding("x", "Dangerous rm -rf with variable"))
            \o When(eval, Finding("x", "Using eval with arguments is extremely dangerous"))
            \o When(chain, Finding("warn", "$ARGUMENTS used in command chain"))
            \o When(secret, Finding("x", "Possible hardcoded secret"))
            \o When(many, Finding("warn", "Many tools pre-approved"))
    IN  Analysis(
          Max(10 - penalty(bash, 2) - penalty(undocumented, 3) - penalty(injection, 2)
                 - penalty(rm, 2) - penalty(eval, 2) - penalty(chain, 2)
                 - penalty(secret, 3) - penalty(many, 1), 0),
          found \o When(~Marked(found, {"warn", "x"}),
                        Finding("ok", "No security issues detected")))

analyze_content_quality(body) ==
    LET section(lines, name) ==
            IF DocHas(body, lines) THEN <<Finding("ok", "Has section " \o name)>>
            ELSE <<Finding("warn", "Missing section " \o name)>>
        gain(lines) == IF DocHas(body, lines) THEN 2 ELSE 0
        example_count == DocCount(body, DocExample)
        word_count == WordCount(body)
    IN  Analysis(
          Least(gain(DocWorkflow) + gain(DocExample) + gain(DocArguments)
                  + (IF example_count >= 2 THEN 2 ELSE IF example_count = 1 THEN 1 ELSE 0)
                  + (IF word_count < 50 \/ word_count > 1000 THEN 0 ELSE 2), 10),
          section(DocWorkflow, "workflow") \o section(DocExample, "usage/examples")
            \o section(DocArguments, "arguments")
            \o (IF example_count >= 2 THEN <<Finding("ok", "Has examples")>>
                ELSE IF example_count = 1 THEN <<Finding("tip", "Has 1 example")>>
                ELSE <<Finding("x", "No examples - add 1-2 concrete usage examples")>>)
            \o When(word_count < 50, Finding("warn", "Very brief content"))
            \o When(word_count > 1000, Finding("warn", "Very lengthy")))

analyze_maintainability(body) ==
    LET heading_count == DocCount(body, DocHeading)
        listed == DocHas(body, DocList)
        code_block_count == DocCount(body, DocFence)
        found ==
            (IF heading_count >= 3 THEN <<>>
             ELSE IF heading_count >= 2
             THEN <<Finding("tip", "Could use more section headings")>>
             ELSE <<Finding("warn", "Add section headings")>>)
            \o When(~listed, Finding("warn", "Use lists for step-by-step instructions"))
            \o When(code_block_count < 2, Finding("warn", "Add code blocks for examples"))
            \* len(long_lines) > body.count('\n') * 0.2
            \o When(DocCount(body, DocLong) * 5 > Len(body),
                    Finding("warn", "Many long lines"))
    IN  Analysis(
          Least((IF heading_count >= 3 THEN 3 ELSE IF heading_count >= 2 THEN 2 ELSE 1)
                  + (IF listed THEN 2 ELSE 0)
                  + (IF code_block_count >= 2 THEN 2 ELSE 0)
                  + (IF DocHas(body, DocBold) THEN 1 ELSE 0)
                  + (IF DocHas(body, DocInlineCode) THEN 1 ELSE 0), 10),
          found \o When(~Marked(found, {"warn"}),
                        Finding("ok", "Well-formatted and maintainable")))

Categories ==
    <<"schema", "model", "arguments", "security", "quality", "maintainability">>

\* main, "Run analyses"
Analyses(file) ==
    [schema |-> analyze_schema(file.frontmatter, file.stem),
     model |-> analyze_model_field(file.frontmatter),
     arguments |-> analyze_arguments(file.frontmatter, file.body),
     security |-> analyze_security(file.frontmatter, file.body),
     quality |-> analyze_content_quality(file.body),
     maintainability |-> analyze_maintainability(file.body)]

\* six times the overall score
TotalScore(r) ==
    r.schema.score + r.model.score + r.arguments.score + r.security.score
        + r.quality.score + r.maintainability.score

\* The bodies drawn: every selection of lines of the document, in its order.
DocBodies ==
    {Concat([i \in DOMAIN Document |-> IF keep[i] THEN <<Document[i]>> ELSE <<>>]) :
        keep \in [DOMAIN Document -> BOOLEAN]}

GoodDescription == <<"f", "i", "x", " ", "t", "h", "e", " ", "b", "u", "g">>
ManyTools ==
    ToolStr(<<"Read", "Write", "Edit", "Grep", "Glob", "Bash", "Task">>)
\* Metadata tried against every body: the least there can be, a forbidden
\* alias on an otherwise plain command, and a command that is weak all over.
BodyFrontmatters ==
    {("description" :> GoodDescription),
     ("description" :> GoodDescription) @@ ("model" :> "haiku"),
     ("description" :> GoodDescription) @@ ("model" :> "claude-haiku-4-5")
        @@ ("allowed-tools" :> ToolStr(<<"Bash", "Read">>))
        @@ ("argument-hint" :> HintStr(<<"[", "a", "]">>)),
     ("description" :> FixBug) @@ ("model" :> "gpt-4")
        @@ ("allowed-tools" :> ToolStr(<<"Bash">>))
        @@ ("argument-hint" :> HintStr(<<"a">>))}
\* Bodies tried against every metadata mapping.
FewBodies ==
    {<<>>, <<"## Example", "echo $ARGUMENTS | sh">>,
     <<"## Workflow", "- run ~git status $1~", "## Arguments">>}
EnhanceStems == {GoodStem, <<"a">>, <<"A", "_">>, LongStem}

EnhanceFile(stem, block, fm, body) ==
    [stem |-> stem, block |-> block,
     frontmatter |-> IF block = "mapping" THEN fm ELSE <<>>, body |-> body]

EnhanceFiles ==
    {EnhanceFile(stem, "mapping", fm, body) :
        stem \in {GoodStem, <<"a">>}, fm \in BodyFrontmatters, body \in DocBodies}
      \cup
    {EnhanceFile(stem, "mapping", d @@ m @@ a @@ h, body) :
        stem \in EnhanceStems,
        d \in OptionalKey("description", {FixBug, GoodDescription}),
        m \in OptionalKey("model", ModelValues),
        a \in OptionalKey("allowed-tools", AllowedToolsValues \cup {ManyTools}),
        h \in OptionalKey("argument-hint",
                          {HintStr(<<"a">>), HintStr(<<"[", "a", "]">>),
                           HintList(<<<<"a">>, <<"a">>>>)}),
        body \in FewBodies}
      \cup
    {EnhanceFile(GoodStem, block, <<>>, <<>>) : block \in {"no_frontmatter", "yaml_error", "empty"}}

NoReport == <<>>

InitEnhance ==
    /\ enhanced \in EnhanceFiles
    /\ report = NoReport
    /\ enhance_pc = "start"
    /\ enhance_exit = 0
    /\ ExceptEnhanceIdle

\* What ends the run in an uncaught exception: metadata that decoded to
\* None ('description' in None), or allowed-tools given as a YAML list
\* (tools.split in analyze_security).
EnhanceRaises(file) ==
    \/ file.block = "empty"
    \/ /\ file.block = "mapping"
       /\ "allowed-tools" \in DOMAIN file.frontmatter
       /\ file.frontmatter["allowed-tools"].isList

\* main: parse, analyse, report, exit.
EnhanceCommand ==
    /\ enhance_pc = "start"
    /\ IF enhanced.block \in {"no_frontmatter", "yaml_error"}
       THEN enhance_pc' = "exit" /\ enhance_exit' = 1 /\ report' = NoReport
       ELSE IF EnhanceRaises(enhanced)
       THEN enhance_pc' = "crashed" /\ enhance_exit' = 1 /\ report' = NoReport
       ELSE /\ report' = Analyses(enhanced)
            /\ enhance_pc' = "exit"
            \* overall_score >= 6, overall_score being the total over 6
            /\ enhance_exit' = IF TotalScore(report') >= 6 * 6 THEN 0 ELSE 1
    /\ UNCHANGED enhanced
    /\ UNCHANGED exceptEnhance

SpecEnhance == InitEnhance /\ [][EnhanceCommand]_vars

AllFindings(r) == Concat([i \in DOMAIN Categories |-> r[Categories[i]].findings])
IsCriticalFinding(f) == f.mark = "x" /\ f.text = "CRITICAL: Commands cannot use short alias"

\* C13: a run of enhance-command that reports a critical finding (a forbidden
\* short model alias) ends with a non-zero exit code.
C13_CriticalFindingFailsRun ==
    (enhance_pc = "exit" /\ report # NoReport
        /\ \E i \in DOMAIN AllFindings(report) : IsCriticalFinding(AllFindings(report)[i]))
    => enhance_exit # 0

\* C14: a run of enhance-command whose findings are all warnings or
\* recommendations (nothing marked with the cross, no parse error) exits 0.
C14_WarningsAloneExitZero ==
    (enhance_pc = "exit" /\ report # NoReport /\ ~Marked(AllFindings(report), {"x"}))
    => enhance_exit = 0

(***************************************************************************)
(* The research cache: cache-manager.py.  An entry is a file               *)
(* <category>/<cache_id>.md; the cache is the function from the            *)
(* <<category, cache_id>> pairs that exist to the metadata written in the  *)
(* file.  A cache id is <<topic_slug, date>>, the two parts of the file    *)
(* stem.  Days are numbered; an entry is expired once the day of its       *)
(* expiry has begun.                                                       *)
(***************************************************************************)
CATEGORIES == <<"investigations", "best-practices", "patterns", "comparisons">>
DEFAULT_EXPIRY_DAYS == 30
MaxCacheOps == 3     \* commands run on the cache
Days == {1, 2, 1 + DEFAULT_EXPIRY_DAYS}
None == <<>>

\* str.lower() on the characters drawn, and the class [a-z0-9] of the slug
LowerChar(c) == CASE c = "A" -> "a" [] c = "B" -> "b" [] OTHER -> c
IsSlugChar(c) == c \in {"a", "b", "1"}

RECURSIVE SubRuns(_, _)
\* re.sub(r'[^a-z0-9]+', '-', s): each maximal run of other characters
\* becomes one '-'; inrun says the previous character was in such a run
SubRuns(s, inrun) ==
    IF s = <<>> THEN <<>>
    ELSE IF IsSlugChar(Head(s)) THEN <<Head(s)>> \o SubRuns(Tail(s), FALSE)
    ELSE IF inrun THEN SubRuns(Tail(s), TRUE)
    ELSE <<"-">> \o SubRuns(Tail(s), TRUE)

RECURSIVE StripDashes(_)
\* str.strip('-')
StripDashes(s) ==
    IF s = <<>> THEN s
    ELSE IF Head(s) = "-" THEN StripDashes(Tail(s))
    ELSE IF s[Len(s)] = "-" THEN StripDashes(SubSeq(s, 1, Len(s) - 1))
    ELSE s

topic_slug(topic) ==
    StripDashes(SubRuns([i \in DOMAIN topic |-> LowerChar(topic[i])], FALSE))

Topics == {<<"a">>, <<"A", " ">>, <<"a", " ", "-", "b">>, <<"b">>}
CacheIds == {<<topic_slug(t), d>> : t \in Topics, d \in Days}

is_expired(entry, now) == now >= entry.expiry

\* The files list_cache loads (their order, by date, is not modelled); an
\* absent category is the empty string, which the code treats like None.
list_cache(files, category, show_expired, now) ==
    {k \in DOMAIN files :
        /\ category # "" => k[1] = category
        /\ k[1] \in Range(CATEGORIES)
        /\ show_expired \/ ~is_expired(files[k], now)}

RECURSIVE FirstCategory(_, _, _)
FirstCategory(files, cache_id, i) ==
    IF i > Len(CATEGORIES) THEN None
    ELSE IF <<CATEGORIES[i], cache_id>> \in DOMAIN files THEN <<CATEGORIES[i], cache_id>>
    ELSE FirstCategory(files, cache_id, i + 1)

\* the file of the entry shown, None when no category holds the id
show_entry(files, cache_id) == FirstCategory(files, cache_id, 1)

add_entry(files, category, topic, now) ==
    LET cache_id == <<topic_slug(topic), now>>
    IN  DictSet(files, <<category, cache_id>>,
                [topic |-> topic, date |-> now, expiry |-> now + DEFAULT_EXPIRY_DAYS])

invalidate_entry(files, cache_id) ==
    LET entry == show_entry(files, cache_id)
    IN  IF entry # None THEN [files |-> DictDel(files, entry), result |-> TRUE]
        ELSE [files |-> files, result |-> FALSE]

clear_cache(files, all_entries, expired_only, category, now) ==
    LET entries == list_cache(files, category, TRUE, now)
        deleted == {k \in entries :
                       all_entries \/ (expired_only /\ is_expired(files[k], now))}
    IN  [files |-> [k \in (DOMAIN files) \ deleted |-> files[k]],
         count |-> Cardinality(deleted)]

\* the mutually exclusive, required options of the clear command
ClearArgs ==
    {[all |-> TRUE, expired |-> FALSE, category |-> ""],
     [all |-> FALSE, expired |-> TRUE, category |-> ""]}
    \cup {[all |-> FALSE, expired |-> FALSE, category |-> c] : c \in Range(CATEGORIES)}

InitCache ==
    /\ cache = <<>>
    /\ today = 1
    /\ cache_reply = <<>>
    /\ cache_ops = 0
    /\ ExceptCacheIdle

cmd_add ==
    /\ cache_ops < MaxCacheOps
    /\ \E category \in Range(CATEGORIES), topic \in Topics :
           /\ cache' = add_entry(cache, category, topic, today)
           /\ cache_reply' = [command |-> "add", category |-> category,
                              id |-> <<topic_slug(topic), today>>]
    /\ cache_ops' = cache_ops + 1
    /\ UNCHANGED today
    /\ UNCHANGED exceptCache

cmd_show ==
    /\ cache_ops < MaxCacheOps
    /\ \E cache_id \in CacheIds :
           cache_reply' = [command |-> "show", id |-> cache_id,
                           entry |-> show_entry(cache, cache_id)]
    /\ cache_ops' = cache_ops + 1
    /\ UNCHANGED <<cache, today>>
    /\ UNCHANGED exceptCache

cmd_invalidate ==
    /\ cache_ops < MaxCacheOps
    /\ \E cache_id \in CacheIds :
           LET done == invalidate_entry(cache, cache_id)
           IN  /\ cache' = done.files
               /\ cache_reply' = [command |-> "invalidate", id |-> cache_id,
                                  result |-> done.result]
    /\ cache_ops' = cache_ops + 1
    /\ UNCHANGED today
    /\ UNCHANGED exceptCache

cmd_clear ==
    /\ cache_ops < MaxCacheOps
    /\ \E args \in ClearArgs, confirm \in {"y", "n"} :
           IF args.all /\ confirm # "y"
           THEN /\ cache_reply' = [command |-> "clear", args |-> args, aborted |-> TRUE]
                /\ UNCHANGED cache
           ELSE LET done ==
                        IF args.all THEN clear_cache(cache, TRUE, FALSE, "", today)
                        ELSE IF args.expired
                        THEN clear_cache(cache, FALSE, TRUE, "", today)
                        ELSE clear_cache(cache, FALSE, FALSE, args.category, today)
                IN  /\ cache' = done.files
                    /\ cache_reply' = [command |-> "clear", args |-> args,
                                       aborted |-> FALSE, count |-> done.count]
    /\ cache_ops' = cache_ops + 1
    /\ UNCHANGED today
    /\ UNCHANGED exceptCache

\* time passes between two commands
NextDay ==
    /\ \E d \in Days : d > today /\ today' = d
    /\ UNCHANGED <<cache, cache_reply, cache_ops>>
    /\ UNCHANGED exceptCache

NextCache == cmd_add \/ cmd_show \/ cmd_invalidate \/ cmd_clear \/ NextDay
SpecCache == InitCache /\ [][NextCache]_vars

EntriesUnder(files, category) == {k \in DOMAIN files : k[1] = category}

\* C23: the command clear --category <cat> deletes every cache entry under
\* that category, reports their number, and deletes no entry of any other
\* category.
C23_ClearCategoryDeletesCategory ==
    [][(/\ cache_ops' = cache_ops + 1
        /\ cache_reply'.command = "clear"
        /\ cache_reply'.args.category # "")
       => /\ EntriesUnder(cache', cache_reply'.args.category) = {}
          /\ cache_reply'.count =
                 Cardinality(EntriesUnder(cache, cache_reply'.args.category))
          /\ \A k \in DOMAIN cache :
                 k[1] # cache_reply'.args.category =>
                     k \in DOMAIN cache' /\ cache'[k] = cache[k]]_vars

\* C29: once invalidate_entry(id) has returned True, show_entry(id) returns
\* None, and it goes on returning None until an entry with that id is added
\* again.
C29_InvalidatedEntryIsGone ==
    [][/\ (/\ cache_ops' = cache_ops + 1
           /\ cache_reply'.command = "invalidate"
           /\ cache_reply'.result)
          => show_entry(cache', cache_reply'.id) = None
       /\ \A cache_id \in CacheIds :
              (/\ show_entry(cache, cache_id) = None
               /\ show_entry(cache', cache_id) # None)
              => cache_reply'.command = "add" /\ cache_reply'.id = cache_id]_vars

(***************************************************************************)
(* Backend detection: detect-backend.py.  The machine is what it answers   *)
(* to the probes: the socket connection and the authenticated request of   *)
(* the HTTP check, the lookups and subprocesses of the CLI check, and the  *)
(* files of the MCP server directory.                                      *)
(***************************************************************************)
HttpProbes ==
    {[socket |-> "refused", token |-> FALSE, request |-> "none"],
     [socket |-> "raises", token |-> FALSE, request |-> "none"],
     [socket |-> "connected", token |-> FALSE, request |-> "none"]}
    \cup {[socket |-> "connected", token |-> TRUE, request |-> r] :
              r \in {"200", "401", "500", "raises"}}

CliProbes ==
    {[which |-> TRUE, version |-> v, npx |-> "none"] : v \in {"zero", "nonzero", "raises"}}
    \cup {[which |-> FALSE, version |-> "none", npx |-> n] :
              n \in {"zero", "nonzero", "notfound", "timeout", "raises"}}

McpProbes ==
    {[exists |-> FALSE, build |-> FALSE, src |-> FALSE]}
    \cup {[exists |-> TRUE, build |-> b, src |-> s] : b, s \in BOOLEAN}

check_http_api(p, token) ==
    IF p.socket = "raises"
    THEN [available |-> FALSE, authenticated |-> FALSE, error |-> "exception"]
    ELSE IF p.socket # "connected"
    THEN [available |-> FALSE, authenticated |-> FALSE, error |-> "Cannot connect"]
    ELSE IF ~token
    THEN [available |-> TRUE, authenticated |-> FALSE, error |-> "None"]
    ELSE [available |-> TRUE,
          authenticated |-> p.request = "200",
          error |-> CASE p.request = "200" -> "None"
                      [] p.request = "401" -> "Invalid token"
                      [] p.request = "500" -> "HTTP 500"
                      [] OTHER -> "exception"]

check_cli(p) ==
    IF p.which
    THEN [available |-> TRUE, path |-> "logseq",
          error |-> IF p.version = "raises" THEN "Version check failed" ELSE "None"]
    ELSE IF p.npx = "zero"
    THEN [available |-> TRUE, path |-> "npx @logseq/cli", error |-> "None"]
    ELSE [available |-> FALSE, path |-> "None",
          error |-> CASE p.npx = "notfound" -> "Neither 'logseq' CLI nor 'npx' found"
                      [] p.npx = "timeout" -> "CLI check timed out"
                      [] p.npx = "raises" -> "exception"
                      [] OTHER -> "None"]

check_mcp_server(p) ==
    IF ~p.exists
    THEN [available |-> FALSE, built |-> FALSE, error |-> "MCP server not found"]
    ELSE IF p.build
    THEN [available |-> TRUE, built |-> TRUE, error |-> "None"]
    ELSE [available |-> FALSE, built |-> FALSE,
          error |-> IF p.src THEN "MCP server exists but not built"
                    ELSE "MCP server source not found"]

detect_best_backend(machine) ==
    LET backends == [http |-> check_http_api(machine.http, machine.http.token),
                     cli |-> check_cli(machine.cli),
                     mcp |-> check_mcp_server(machine.mcp)]
    IN  [recommended |->
             IF backends.mcp.available /\ backends.http.available THEN "mcp"
             ELSE IF backends.http.available THEN "http"
             ELSE IF backends.cli.available THEN "cli"
             ELSE "None",
         backends |-> backends]

InitDetectBackend ==
    /\ probe \in [http : HttpProbes, cli : CliProbes, mcp : McpProbes]
    /\ backend_args \in {"", "http", "cli", "mcp", "rest"}
    /\ detection = <<>>
    /\ backend_exit = 0
    /\ backend_pc = "start"
    /\ ExceptBackendIdle

\* main with --check <backend>: one check with its default arguments
CheckOneBackend ==
    /\ backend_pc = "start"
    /\ backend_args # ""
    /\ IF backend_args \notin {"http", "cli", "mcp"}
       THEN detection' = <<>> /\ backend_exit' = 1
       ELSE LET result ==
                    CASE backend_args = "http" -> check_http_api(probe.http, FALSE)
                      [] backend_args = "cli" -> check_cli(probe.cli)
                      [] OTHER -> check_mcp_server(probe.mcp)
            IN  /\ detection' = result
                /\ backend_exit' = IF result.available THEN 0 ELSE 1
    /\ backend_pc' = "exit"
    /\ UNCHANGED <<probe, backend_args>>
    /\ UNCHANGED exceptBackend

\* main without --check
DetectBackends ==
    /\ backend_pc = "start"
    /\ backend_args = ""
    /\ detection' = detect_best_backend(probe)
    /\ backend_exit' = IF detection'.recommended # "None" THEN 0 ELSE 1
    /\ backend_pc' = "exit"
    /\ UNCHANGED <<probe, backend_args>>
    /\ UNCHANGED exceptBackend

NextDetectBackend == CheckOneBackend \/ DetectBackends
SpecDetectBackend == InitDetectBackend /\ [][NextDetectBackend]_vars

Detected == backend_pc = "exit" /\ backend_args = ""

\* C24: detect_best_backend recommends the first available backend in the
\* order MCP, HTTP API, CLI, and recommends none only when no backend is
\* available.
C24_FirstAvailableBackend ==
    Detected =>
        LET b == detection.backends
        IN  detection.recommended =
                IF b.mcp.available THEN "mcp"
                ELSE IF b.http.available THEN "http"
                ELSE IF b.cli.available THEN "cli"
                ELSE "None"

(***************************************************************************)
(* The interactive hook updater: update-hook.py.  The hooks.json tree has  *)
(* the shape used for the hook migrator: the events in file order, each    *)
(* with its list of groups.  List positions are counted from 1.  What the  *)
(* user types at each prompt is an input of the run.                       *)
(***************************************************************************)
UPDATE_VALID_EVENTS ==
    <<"PreToolUse", "PostToolUse", "UserPromptSubmit", "Stop", "SessionStart",
      "Notification", "SubagentStop", "PreCompact">>

\* The characters of the matcher texts that occur, for the regex compiler.
PatternChars(matcher) ==
    CASE matcher = "" -> <<>>
      [] matcher = " " -> <<" ">>
      [] matcher = "*" -> <<"*">>
      [] matcher = "(" -> <<"(">>
      [] matcher = "5" -> <<"5">>
      [] matcher = "Bash" -> <<"B", "a", "s", "h">>
      [] matcher = "Bash.*" -> <<"B", "a", "s", "h", ".", "*">>
      [] matcher = "Write|Edit" -> <<"W", "r", "i", "t", "e", "|", "E", "d", "i", "t">>
      [] matcher = "N/A" -> <<"N", "/", "A">>

RECURSIVE ParenDepthOk(_, _)
ParenDepthOk(p, depth) ==
    IF p = <<>> THEN depth = 0
    ELSE IF Head(p) = "(" THEN ParenDepthOk(Tail(p), depth + 1)
    ELSE IF Head(p) = ")" THEN depth > 0 /\ ParenDepthOk(Tail(p), depth - 1)
    ELSE ParenDepthOk(Tail(p), depth)

\* re.compile(pattern) does not raise re.error, for patterns made of
\* literals, '.', '|', '*' and parentheses: the parentheses pair up and
\* every '*' follows something to repeat (not the start of the pattern or
\* of a branch, and not another '*').
re_compiles(p) ==
    /\ ParenDepthOk(p, 0)
    /\ \A i \in DOMAIN p :
           p[i] = "*" => i > 1 /\ p[i - 1] \notin {"(", "|", "*"}

validate_matcher(matcher) ==
    IF matcher = "" THEN [valid |-> FALSE, error |-> "Empty matcher"]
    ELSE IF re_compiles(PatternChars(matcher)) THEN [valid |-> TRUE, error |-> ""]
    ELSE [valid |-> FALSE, error |-> "Invalid regex"]

\* dict.get(key, default)
Get(d, key, default) == IF key \in DOMAIN d THEN d[key] ELSE default

list_all_hooks(cfg) ==
    IF "hooks" \notin DOMAIN cfg THEN <<>>
    ELSE
        LET es == cfg["hooks"]
            items(e, i) ==
                LET hook_config == es[e].groups[i]
                IN  IF "hooks" \notin DOMAIN hook_config THEN <<>>
                    ELSE [j \in DOMAIN hook_config["hooks"] |->
                             [event_name |-> es[e].event,
                              cfg_idx |-> i,
                              item_idx |-> j,
                              matcher |-> Get(hook_config, "matcher", "N/A"),
                              type |-> Get(hook_config["hooks"][j], "type", "unknown"),
                              command |-> Get(hook_config["hooks"][j], "command", <<>>),
                              prompt |-> Get(hook_config["hooks"][j], "prompt", ""),
                              hook_item |-> hook_config["hooks"][j]]]
        IN  Concat([e \in DOMAIN es |->
                       Concat([i \in DOMAIN es[e].groups |-> items(e, i)])])

\* choice is the number typed, 0 standing for anything that is no number
update_event_type(current_event, choice) ==
    IF choice \in 1..Len(UPDATE_VALID_EVENTS) THEN UPDATE_VALID_EVENTS[choice]
    ELSE current_event

validate_event_name(event) == event \in Range(UPDATE_VALID_EVENTS)

update_matcher(current_matcher, event, choice) ==
    LET kept == IF current_matcher # "N/A" THEN current_matcher ELSE ""
    IN  IF event \in LIFECYCLE_EVENTS THEN ""
        ELSE IF choice = "5" \/ choice = "" THEN kept
        ELSE IF ~validate_matcher(choice).valid THEN kept
        ELSE choice

update_hook_type(current_type, choice) ==
    CASE choice = 1 -> "command"
      [] choice = 2 -> "prompt"
      [] OTHER -> current_type

\* of the dangerous patterns, the commands typed can only hold 'eval\s+'
check_script_security(command) ==
    IF \E i \in DOMAIN command : command[i] = "eval" /\ i < Len(command)
    THEN <<"eval command detected (dangerous)">>
    ELSE <<>>

update_command(current_command, new_command, confirm) ==
    IF new_command = <<>> THEN current_command
    ELSE IF check_script_security(new_command) # <<>> /\ confirm # "y"
    THEN current_command
    ELSE new_command

update_prompt(current_prompt, new_prompt) ==
    IF new_prompt = "" THEN current_prompt ELSE new_prompt

\* list.pop(i) and list.append(x)
Pop(seq, i) == SubSeq(seq, 1, i - 1) \o SubSeq(seq, i + 1, Len(seq))

EventIndex(es, event) == CHOOSE e \in DOMAIN es : es[e].event = event
HasEvent(es, event) == \E e \in DOMAIN es : es[e].event = event

\* main, lines 397-429: the tree after the change is applied
apply_changes(cfg, event_name, cfg_idx, item_idx, new_event, new_matcher, new_hook_item) ==
    LET es == cfg["hooks"]
        e == EventIndex(es, event_name)
        hook_config == es[e].groups[cfg_idx]
    IN  IF new_event # event_name
        THEN
            LET popped == DictSet(hook_config, "hooks", Pop(hook_config["hooks"], item_idx))
                old_event_hooks ==
                    IF popped["hooks"] = <<>> THEN Pop(es[e].groups, cfg_idx)
                    ELSE [es[e].groups EXCEPT ![cfg_idx] = popped]
                removed ==
                    IF old_event_hooks = <<>> THEN Pop(es, e)
                    ELSE [es EXCEPT ![e].groups = old_event_hooks]
                present ==
                    IF HasEvent(removed, new_event) THEN removed
                    ELSE Append(removed, [event |-> new_event, groups |-> <<>>])
                new_hook_config ==
                    (IF new_event \in TOOL_EVENTS /\ new_matcher # ""
                     THEN ("matcher" :> new_matcher) ELSE <<>>)
                    @@ ("hooks" :> <<new_hook_item>>)
                n == EventIndex(present, new_event)
            IN  DictSet(cfg, "hooks",
                        [present EXCEPT ![n].groups = Append(@, new_hook_config)])
        ELSE
            LET matched ==
                    IF new_event \in TOOL_EVENTS /\ new_matcher # ""
                    THEN DictSet(hook_config, "matcher", new_matcher)
                    ELSE IF new_event \in LIFECYCLE_EVENTS /\ "matcher" \in DOMAIN hook_config
                    THEN DictDel(hook_config, "matcher")
                    ELSE hook_config
                updated ==
                    DictSet(matched, "hooks",
                            [matched["hooks"] EXCEPT ![item_idx] = new_hook_item])
            IN  DictSet(cfg, "hooks", [es EXCEPT ![e].groups[cfg_idx] = updated])

UpdateItems ==
    {("type" :> "command") @@ ("command" :> <<"bash", "/opt/run.sh">>),
     ("type" :> "command") @@ ("command" :> <<"bash", "/opt/run.sh">>) @@ ("timeout" :> 30),
     ("type" :> "prompt") @@ ("prompt" :> "check the change"),
     ("command" :> <<"echo", "ok">>)}
UpdateItemLists ==
    {<<it>> : it \in UpdateItems}
    \cup {<<("type" :> "command") @@ ("command" :> <<"bash", "/opt/run.sh">>), it>> :
              it \in {("type" :> "prompt") @@ ("prompt" :> "check the change"),
                      ("command" :> <<"echo", "ok">>)}}
UpdateGroups ==
    {m @@ h : m \in OptionalKey("matcher", {"", "Bash"}),
              h \in OptionalKey("hooks", UpdateItemLists)}
\* Groups of a file with a second group or a second event.
UpdateFewGroups ==
    {m @@ ("hooks" :> <<("type" :> "command") @@ ("command" :> <<"bash", "/opt/run.sh">>)>>) :
        m \in OptionalKey("matcher", {"", "Bash"})}
UpdatePlainGroup ==
    ("hooks" :> <<("type" :> "prompt") @@ ("prompt" :> "check the change")>>)
UpdateConfigs ==
    {<<>>, ("hooks" :> <<>>)}
    \cup {("hooks" :> <<[event |-> e, groups |-> <<g>>]>>) :
             e \in {"PreToolUse", "Stop", "OnSave"}, g \in UpdateGroups}
    \cup {("hooks" :> es) :
             es \in UNION {
                 {<<[event |-> e, groups |-> <<g, ("matcher" :> "Bash") @@ UpdatePlainGroup>>]>>,
                  <<[event |-> e, groups |-> <<g>>],
                    [event |-> "PostToolUse", groups |-> <<("matcher" :> "Bash") @@ UpdatePlainGroup>>]>>,
                  <<[event |-> e, groups |-> <<g>>],
                    [event |-> "SessionStart", groups |-> <<UpdatePlainGroup>>]>>} :
                 e \in {"PreToolUse", "Stop", "OnSave"}, g \in UpdateFewGroups}}

InitUpdateHook ==
    /\ upd_disk \in
           {[status |-> "missing", config |-> <<>>], [status |-> "invalid", config |-> <<>>]}
           \cup {[status |-> "ok", config |-> c] : c \in UpdateConfigs}
    /\ upd_backup = <<>>
    /\ upd_locals = <<>>
    /\ upd_pc = "start"
    /\ upd_exit = 0
    /\ ExceptUpdateIdle

\* main leaves before the backup: file missing or unreadable, no hooks, bad
\* selection, invalid event, or the change not confirmed
UpdateHookLeaves ==
    /\ upd_pc = "start"
    /\ \/ /\ upd_disk.status # "ok"
          /\ upd_exit' = 1
          /\ upd_locals' = <<>>
       \/ /\ upd_disk.status = "ok"
          /\ list_all_hooks(upd_disk.config) = <<>>
          /\ upd_exit' = 0
          /\ upd_locals' = <<>>
       \/ /\ upd_disk.status = "ok"
          /\ list_all_hooks(upd_disk.config) # <<>>
          /\ \E choice \in 0..(Len(list_all_hooks(upd_disk.config)) + 1) :
                 /\ choice \notin DOMAIN list_all_hooks(upd_disk.config)
                 /\ upd_locals' = [idx |-> choice]
          /\ upd_exit' = 1
       \/ /\ upd_disk.status = "ok"
          /\ \E idx \in DOMAIN list_all_hooks(upd_disk.config), choice \in {0, 2, 4} :
                 LET hook_data == list_all_hooks(upd_disk.config)[idx]
                     new_event == update_event_type(hook_data.event_name, choice)
                 IN  /\ upd_locals' = [idx |-> idx, new_event |-> new_event]
                     /\ \/ ~validate_event_name(new_event) /\ upd_exit' = 1
                        \/ validate_event_name(new_event) /\ upd_exit' = 0
    /\ upd_pc' = "exit"
    /\ UNCHANGED <<upd_disk, upd_backup>>
    /\ UNCHANGED exceptUpdate

\* main runs to the end: the change is confirmed, the backup is copied, the
\* change is applied and written; a failed write restores the backup
UpdateHookApplies ==
    /\ upd_pc = "start"
    /\ upd_disk.status = "ok"
    /\ \E idx \in DOMAIN list_all_hooks(upd_disk.config),
          event_choice \in {0, 2, 4},
          matcher_choice \in {"", "5", "*", "Write|Edit"},
          type_choice \in {1, 2, 3},
          command_typed \in {<<>>, <<"bash", "/opt/new.sh">>, <<"eval", "$1">>},
          command_confirm \in {"y", "n"},
          prompt_typed \in {"", "is it safe"},
          written \in BOOLEAN :
           LET hook_data == list_all_hooks(upd_disk.config)[idx]
               new_event == update_event_type(hook_data.event_name, event_choice)
               new_matcher == update_matcher(hook_data.matcher, new_event, matcher_choice)
               new_type == update_hook_type(hook_data.type, type_choice)
               new_hook_item ==
                   ("type" :> new_type)
                   @@ (CASE new_type = "command" ->
                               ("command" :> update_command(hook_data.command, command_typed,
                                                            command_confirm))
                         [] new_type = "prompt" ->
                               ("prompt" :> update_prompt(hook_data.prompt, prompt_typed))
                         [] OTHER -> <<>>)
               hooks_after ==
                   apply_changes(upd_disk.config, hook_data.event_name, hook_data.cfg_idx,
                                 hook_data.item_idx, new_event, new_matcher, new_hook_item)
           IN  /\ validate_event_name(new_event)
               /\ upd_backup' = upd_disk.config
               /\ upd_locals' = [idx |-> idx, event_name |-> hook_data.event_name,
                                 cfg_idx |-> hook_data.cfg_idx,
                                 item_idx |-> hook_data.item_idx,
                                 new_event |-> new_event, new_matcher |-> new_matcher,
                                 new_hook_item |-> new_hook_item]
               /\ IF written
                  THEN upd_disk' = [status |-> "ok", config |-> hooks_after] /\ upd_exit' = 0
                  ELSE upd_disk' = [status |-> "ok", config |-> upd_backup'] /\ upd_exit' = 1
    /\ upd_pc' = "exit"
    /\ UNCHANGED exceptUpdate

NextUpdateHook == UpdateHookLeaves \/ UpdateHookApplies
SpecUpdateHook == InitUpdateHook /\ [][NextUpdateHook]_vars

\* the run was confirmed and its change written
Updated == upd_pc = "exit" /\ upd_exit = 0 /\ "new_hook_item" \in DOMAIN upd_locals
Moved == upd_locals.new_event # upd_locals.event_name

\* the group that holds the updated item in the file written
UpdatedGroup ==
    LET es == upd_disk.config["hooks"]
        groups == es[EventIndex(es, upd_locals.new_event)].groups
    IN  IF Moved THEN groups[Len(groups)] ELSE groups[upd_locals.cfg_idx]

\* C25: after a confirmed run the group holding the updated item obeys the
\* matcher rule of its event: a non-empty matcher under PreToolUse and
\* PostToolUse, no matcher key under a lifecycle event.
C25_UpdatedGroupObeysMatcherRule ==
    Updated =>
        /\ upd_locals.new_event \in TOOL_EVENTS =>
               "matcher" \in DOMAIN UpdatedGroup /\ UpdatedGroup["matcher"] # ""
        /\ upd_locals.new_event \in LIFECYCLE_EVENTS =>
               "matcher" \notin DOMAIN UpdatedGroup

\* what the listing says of a hook item: its event, its group's matcher and
\* the item itself
Listed(cfg) ==
    [k \in DOMAIN list_all_hooks(cfg) |->
        [event |-> list_all_hooks(cfg)[k].event_name,
         matcher |-> list_all_hooks(cfg)[k].matcher,
         hook_item |-> list_all_hooks(cfg)[k].hook_item]]

\* where the updated item is listed in the file written
UpdatedPosition ==
    LET after == list_all_hooks(upd_disk.config)
        es == upd_disk.config["hooks"]
        groups == es[EventIndex(es, upd_locals.new_event)].groups
    IN  CHOOSE k \in DOMAIN after :
            /\ after[k].event_name = upd_locals.new_event
            /\ after[k].cfg_idx = IF Moved THEN Len(groups) ELSE upd_locals.cfg_idx
            /\ after[k].item_idx = IF Moved THEN 1 ELSE upd_locals.item_idx

\* C28: a confirmed run changes only the selected hook item: the number of
\* hook items is the same, and every other item keeps its event, the matcher
\* of its group, its type and its payload.
C28_OnlySelectedItemChanges ==
    Updated =>
        /\ Len(list_all_hooks(upd_disk.config)) = Len(list_all_hooks(upd_backup))
        /\ Pop(Listed(upd_disk.config), UpdatedPosition)
               = Pop(Listed(upd_backup), upd_locals.idx)

(***************************************************************************)
(* enhance-hook.py, analyze_matcher_validity, applied to the tree the hook *)
(* migrator leaves.  A finding is its mark, what it reports, its penalty   *)
(* and the group it is about.                                              *)
(***************************************************************************)
HasEscapedPipe(p) == \E i \in DOMAIN p : i < Len(p) /\ p[i] = "\\" /\ p[i + 1] = "|"

MatcherFindings(event, i, hook_config) ==
    LET matcher == Get(hook_config, "matcher", "")
        about(mark, kind, penalty) ==
            [mark |-> mark, kind |-> kind, penalty |-> penalty, event |-> event, hook |-> i]
    IN  IF event \notin TOOL_EVENTS THEN <<>>
        ELSE IF matcher = "" THEN <<about("x", "Empty matcher", 2)>>
        ELSE IF ~re_compiles(PatternChars(matcher))
        THEN <<about("x", "Invalid regex", 3)>>
        ELSE (IF HasEscapedPipe(PatternChars(matcher))
              THEN <<about("warn", "Escaped pipe", 1)>> ELSE <<>>)
             \o (IF matcher = "*"
                 THEN <<about("info", "Using wildcard matcher", 0)>> ELSE <<>>)

RECURSIVE Penalties(_)
Penalties(findings) ==
    IF findings = <<>> THEN 0 ELSE Head(findings).penalty + Penalties(Tail(findings))

analyze_matcher_validity(cfg) ==
    IF "hooks" \notin DOMAIN cfg
    THEN [score |-> 0,
          findings |-> <<[mark |-> "x", kind |-> "CRITICAL: No hooks to analyze",
                          penalty |-> 10, event |-> "", hook |-> 0]>>]
    ELSE
        LET es == cfg["hooks"]
            findings ==
                Concat([e \in DOMAIN es |->
                    Concat([i \in DOMAIN es[e].groups |->
                        MatcherFindings(es[e].event, i, es[e].groups[i])])])
        IN  [score |-> Max(10 - Penalties(findings), 0),
             findings |->
                 IF findings = <<>>
                 THEN <<[mark |-> "ok", kind |-> "All matchers are valid",
                         penalty |-> 0, event |-> "", hook |-> 0]>>
                 ELSE findings]

\* the tool-event groups of the migrated tree that hold the default matcher
DefaultedGroups ==
    {<<e, i>> \in (DOMAIN Entries(hooks_config)) \X (1..MaxGroups) :
        /\ i \in DOMAIN Entries(hooks_config)[e].groups
        /\ Entries(hooks_config)[e].event \in TOOL_EVENTS
        /\ Get(Entries(hooks_config)[e].groups[i], "matcher", "") = "*"}

\* C26: every matcher the hook migrator writes passes the matcher checks of
\* the other hook scripts: the default "*" gets no 'Invalid regex' finding
\* from analyze_matcher_validity and is accepted by validate_matcher.
C26_DefaultMatcherIsAccepted ==
    hook_runs >= 1 =>
        \A d \in DefaultedGroups :
            /\ validate_matcher("*").valid
            /\ ~\E k \in DOMAIN analyze_matcher_validity(hooks_config).findings :
                   LET f == analyze_matcher_validity(hooks_config).findings[k]
                   IN  /\ f.kind = "Invalid regex"
                       /\ f.event = Entries(hooks_config)[d[1]].event
                       /\ f.hook = d[2]

(***************************************************************************)
(* enhance-hook.py: the seven analyses of a hooks.json tree.  A command is *)
(* the sequence of its words; the patterns the analyses search for are     *)
(* read on the words.  A finding carries the penalty subtracted when it    *)
(* was appended, so a score is 10 less the penalties of its findings, and  *)
(* never less than 0.                                                      *)
(***************************************************************************)
MaxCrowd == 12       \* groups of the most crowded hooks.json drawn

Penalised(mark, text, penalty) == [mark |-> mark, text |-> text, penalty |-> penalty]

\* the (event, group) and (event, item) pairs in the order the loops visit them
GroupsIn(cfg) ==
    LET es == cfg["hooks"]
    IN  Concat([e \in DOMAIN es |->
                   [i \in DOMAIN es[e].groups |->
                       [event |-> es[e].event, group |-> es[e].groups[i]]]])
ItemsIn(cfg) ==
    LET gs == GroupsIn(cfg)
    IN  Concat([g \in DOMAIN gs |->
                   IF "hooks" \notin DOMAIN gs[g].group THEN <<>>
                   ELSE [j \in DOMAIN gs[g].group["hooks"] |->
                            [event |-> gs[g].event, item |-> gs[g].group["hooks"][j]]]])

\* Concat of one sequence of findings per element of a sequence
FindingsOver(seq, f(_)) == Concat([k \in DOMAIN seq |-> f(seq[k])])

HasWord(c, w) == \E i \in DOMAIN c : c[i] = w
\* w followed by white space
Followed(c, w) == \E i \in DOMAIN c : c[i] = w /\ i < Len(c)
InOrder(c, a, b, d) ==
    \E i, j, k \in DOMAIN c : i < j /\ j < k /\ c[i] = a /\ c[j] = b /\ c[k] = d
Consecutive(c, a, b, d) ==
    \E i \in DOMAIN c : i + 2 <= Len(c) /\ c[i] = a /\ c[i + 1] = b /\ c[i + 2] = d

SubstitutionWords == {"$(cat x)"}                 \* \$\(.*\)
BacktickWords == {"~id~"}                         \* a backtick, .*, a backtick
AbsoluteWords == {"/opt/run.sh", "/tmp"}          \* startswith('/')
VariableWords == {"${CLAUDE_PLUGIN_ROOT}/run.sh"} \* startswith('${')
SlashWords ==                                     \* '/' in the word
    AbsoluteWords \cup VariableWords \cup {"scripts/run.sh", "if=/dev/zero", ">/dev/sda"}

\* analyze_security, dangerous_patterns: the messages and penalties that apply
DangerousPatterns(c) ==
    (IF Followed(c, "eval") THEN <<Penalised("x", "CRITICAL: eval command", 3)>> ELSE <<>>)
    \o (IF \E i \in DOMAIN c :
              i + 2 <= Len(c) /\ c[i] = "rm" /\ c[i + 1] = "-rf" /\ c[i + 2] \in AbsoluteWords
        THEN <<Penalised("x", "CRITICAL: rm -rf /", 3)>> ELSE <<>>)
    \o (IF \E i \in DOMAIN c : c[i] \in SubstitutionWords
        THEN <<Penalised("x", "Command substitution", 2)>> ELSE <<>>)
    \o (IF \E i \in DOMAIN c : c[i] \in BacktickWords
        THEN <<Penalised("x", "Backtick execution", 2)>> ELSE <<>>)
    \o (IF HasWord(c, ">/dev/sda")
        THEN <<Penalised("x", "Writing to disk devices", 3)>> ELSE <<>>)
    \o (IF \E i \in DOMAIN c : i < Len(c) /\ c[i] = "dd" /\ c[i + 1] = "if=/dev/zero"
        THEN <<Penalised("x", "dd command", 2)>> ELSE <<>>)
    \o (IF HasWord(c, "mkfs") THEN <<Penalised("x", "Filesystem formatting", 3)>> ELSE <<>>)
    \o (IF \E i \in DOMAIN c : i < Len(c) /\ c[i] = "chmod" /\ c[i + 1] = "777"
        THEN <<Penalised("x", "Overly permissive permissions", 1)>> ELSE <<>>)
    \o (IF InOrder(c, "wget", "|", "bash")
        THEN <<Penalised("x", "Piping wget to bash", 3)>> ELSE <<>>)
    \o (IF InOrder(c, "curl", "|", "bash")
        THEN <<Penalised("x", "Piping curl to bash", 3)>> ELSE <<>>)

CommandOf(item) == Get(item, "command", <<>>)
IsCommandItem(item) == "type" \in DOMAIN item /\ item["type"] = "command"

hook_analyze_schema_compliance(cfg) ==
    IF "hooks" \notin DOMAIN cfg
    THEN Analysis(0, <<Penalised("x", "CRITICAL: Missing top-level 'hooks' field", 10)>>)
    ELSE
        LET es == cfg["hooks"]
            ofEvent(entry) ==
                IF entry.event \notin VALID_EVENTS
                THEN <<Penalised("x", "Invalid event name", 2)>> ELSE <<>>
            ofGroup(g) ==
                (IF g.event \in TOOL_EVENTS /\ "matcher" \notin DOMAIN g.group
                 THEN <<Penalised("warn", "Missing required 'matcher'", 1)>>
                 ELSE IF /\ g.event \in LIFECYCLE_EVENTS
                         /\ "matcher" \in DOMAIN g.group /\ g.group["matcher"] # ""
                 THEN <<Penalised("warn", "Shouldn't have 'matcher'", 1)>>
                 ELSE <<>>)
                \o (IF "hooks" \notin DOMAIN g.group
                    THEN <<Penalised("x", "Missing 'hooks' array", 2)>> ELSE <<>>)
            findings == FindingsOver(es, ofEvent) \o FindingsOver(GroupsIn(cfg), ofGroup)
        IN  Analysis(Max(10 - Penalties(findings), 0),
                     IF findings = <<>>
                     THEN <<Penalised("ok", "Schema is fully compliant", 0)>>
                     ELSE findings)

\* analyze_security: what the loop over the command items appends
HookSecurityFindings(cfg) ==
    LET ofItem(it) ==
            LET c == CommandOf(it.item)
            IN  IF ~IsCommandItem(it.item) THEN <<>>
                ELSE DangerousPatterns(c)
                     \o (IF /\ HasWord(c, "$1")
                            /\ ~(Followed(c, "[[") \/ Followed(c, "if") \/ Followed(c, "case"))
                         THEN <<Penalised("warn", "Uses parameters without apparent validation", 1)>>
                         ELSE <<>>)
                     \o (IF ~Consecutive(c, "set", "-euo", "pipefail") /\ HasWord(c, "bash")
                         THEN <<Penalised("warn", "Missing set -euo pipefail", 1)>>
                         ELSE <<>>)
                     \o (IF /\ Len(c) > 1 /\ c[1] = "bash"
                            /\ \E i \in DOMAIN c : c[i] \in SlashWords
                            /\ c[2] \notin AbsoluteWords /\ c[2] \notin VariableWords
                         THEN <<Penalised("warn", "Relative path", 1)>>
                         ELSE <<>>)
    IN  FindingsOver(ItemsIn(cfg), ofItem)

\* A security analysis that lets the penalties take the score below 0.
hook_analyze_security_unclamped(cfg) ==
    IF "hooks" \notin DOMAIN cfg
    THEN Analysis(0, <<Penalised("x", "CRITICAL: Cannot analyze security without hooks", 10)>>)
    ELSE Analysis(10 - Penalties(HookSecurityFindings(cfg)), HookSecurityFindings(cfg))

hook_analyze_security(cfg) ==
    IF "hooks" \notin DOMAIN cfg
    THEN Analysis(0, <<Penalised("x", "CRITICAL: Cannot analyze security without hooks", 10)>>)
    ELSE
        LET findings == HookSecurityFindings(cfg)
        IN  Analysis(Max(10 - Penalties(findings), 0),
                     IF findings = <<>>
                     THEN <<Penalised("ok", "No security issues detected", 0)>>
                     ELSE findings)

\* scripts says whether the script files exist and whether they can be run
hook_analyze_script_existence(cfg, scripts) ==
    IF "hooks" \notin DOMAIN cfg
    THEN Analysis(0, <<Penalised("x", "CRITICAL: No hooks to analyze", 10)>>)
    ELSE
        LET ofItem(it) ==
                LET c == CommandOf(it.item)
                IN  IF ~(IsCommandItem(it.item) /\ Len(c) > 1 /\ c[1] \in {"bash", "sh"})
                    THEN <<>>
                    ELSE IF c[2] \in VariableWords
                    THEN <<Penalised("info", "Uses variable (cannot verify)", 0)>>
                    ELSE IF ~scripts.exist
                    THEN <<Penalised("x", "Script not found", 2)>>
                    ELSE IF ~scripts.executable
                    THEN <<Penalised("warn", "Script not executable", 1)>>
                    ELSE <<>>
            findings == FindingsOver(ItemsIn(cfg), ofItem)
        IN  Analysis(Max(10 - Penalties(findings), 0),
                     IF findings = <<>>
                     THEN <<Penalised("ok", "All scripts exist and are executable", 0)>>
                     ELSE findings)

hook_analyze_hook_types(cfg) ==
    IF "hooks" \notin DOMAIN cfg
    THEN Analysis(0, <<Penalised("x", "CRITICAL: No hooks to analyze", 10)>>)
    ELSE
        LET ofItem(it) ==
                LET hook_type == Get(it.item, "type", "")
                IN  IF hook_type \notin {"command", "prompt"}
                    THEN <<Penalised("x", "Invalid type", 3)>>
                    ELSE IF hook_type = "command"
                    THEN IF "command" \notin DOMAIN it.item
                         THEN <<Penalised("x", "Missing 'command' field", 2)>>
                         ELSE IF it.item["command"] = <<>>
                         THEN <<Penalised("x", "Empty command", 2)>>
                         ELSE <<>>
                    ELSE IF "prompt" \notin DOMAIN it.item
                         THEN <<Penalised("x", "Missing 'prompt' field", 2)>>
                         ELSE IF it.item["prompt"] \in {"", " "}
                         THEN <<Penalised("x", "Empty prompt", 2)>>
                         ELSE <<>>
            findings == FindingsOver(ItemsIn(cfg), ofItem)
        IN  Analysis(Max(10 - Penalties(findings), 0),
                     IF findings = <<>>
                     THEN <<Penalised("ok", "All hook types are valid", 0)>>
                     ELSE findings)

LongPrompts == {"approve the change or block it", "a long prompt that only describes"}  \* len >= 20
DecisionPrompts == {"approve the change or block it", "check the change"}  \* a decision keyword

hook_analyze_documentation(cfg) ==
    IF "hooks" \notin DOMAIN cfg
    THEN Analysis(0, <<Penalised("x", "CRITICAL: No hooks to analyze", 10)>>)
    ELSE
        LET top ==
                IF "_comment" \in DOMAIN cfg \/ "description" \in DOMAIN cfg
                THEN <<Penalised("ok", "Top-level documentation present", 0)>>
                ELSE <<Penalised("warn", "No top-level documentation", 2)>>
            ofItem(it) ==
                LET prompt == Get(it.item, "prompt", "")
                IN  IF ~("type" \in DOMAIN it.item /\ it.item["type"] = "prompt") THEN <<>>
                    ELSE (IF prompt \notin LongPrompts
                          THEN <<Penalised("warn", "Very short prompt", 1)>> ELSE <<>>)
                         \o (IF prompt \notin DecisionPrompts
                             THEN <<Penalised("warn", "Prompt lacks clear decision keywords", 1)>>
                             ELSE <<>>)
            findings == top \o FindingsOver(ItemsIn(cfg), ofItem)
        IN  Analysis(Max(10 - Penalties(findings), 0), findings)

hook_analyze_maintainability(cfg) ==
    IF "hooks" \notin DOMAIN cfg
    THEN Analysis(0, <<Penalised("x", "CRITICAL: No hooks to analyze", 10)>>)
    ELSE
        LET items == ItemsIn(cfg)
            total_hooks == Len(items)
            size ==
                IF total_hooks > 20
                THEN <<Penalised("warn", "Large number of hooks", 2)>>
                ELSE IF total_hooks = 0
                THEN <<Penalised("x", "No hooks defined", 10)>>
                ELSE <<>>
            duplicates ==
                Concat([k \in DOMAIN items |->
                    IF /\ IsCommandItem(items[k].item)
                       /\ \E h \in 1..(k - 1) :
                              /\ IsCommandItem(items[h].item)
                              /\ CommandOf(items[h].item) = CommandOf(items[k].item)
                    THEN <<Penalised("warn", "Duplicate command found", 1)>>
                    ELSE <<>>])
            script_paths ==
                {CommandOf(items[k].item)[2] :
                    k \in {k \in DOMAIN items :
                              /\ IsCommandItem(items[k].item)
                              /\ HasWord(CommandOf(items[k].item), "bash")
                              /\ Len(CommandOf(items[k].item)) > 1}}
            styles ==
                IF \E q \in script_paths : q \notin VariableWords /\ q \notin AbsoluteWords
                THEN <<Penalised("warn", "Inconsistent script path styles", 1)>>
                ELSE <<>>
            findings == size \o duplicates \o styles
        IN  Analysis(Max(10 - Penalties(findings), 0),
                     IF findings = <<>>
                     THEN <<Penalised("ok", "Good maintainability", 0)>>
                     ELSE findings)

HookCategories ==
    <<"Schema Compliance", "Security", "Matcher Validity", "Script Existence",
      "Hook Types", "Documentation", "Maintainability">>

\* main, "Run analyses"
HookAnalyses(file) ==
    ("Schema Compliance" :> hook_analyze_schema_compliance(file.config))
    @@ ("Security" :> hook_analyze_security(file.config))
    @@ ("Matcher Validity" :> analyze_matcher_validity(file.config))
    @@ ("Script Existence" :> hook_analyze_script_existence(file.config, file.scripts))
    @@ ("Hook Types" :> hook_analyze_hook_types(file.config))
    @@ ("Documentation" :> hook_analyze_documentation(file.config))
    @@ ("Maintainability" :> hook_analyze_maintainability(file.config))

ScoredCommands ==
    {<<"bash", "/opt/run.sh">>,
     <<"bash", "scripts/run.sh", "$1">>,
     <<"sh", "${CLAUDE_PLUGIN_ROOT}/run.sh">>,
     <<"set", "-euo", "pipefail", ";", "bash", "/opt/run.sh">>,
     <<"if", "[[", "$1", "]]", ";", "then", "echo", "ok", ";", "fi">>,
     <<"eval", "$(cat x)", ";", "rm", "-rf", "/tmp", ";", "curl", "u", "|", "bash">>,
     <<"dd", "if=/dev/zero", ">/dev/sda", ";", "mkfs", ";", "chmod", "777", "x", ";",
       "wget", "u", "|", "bash", ";", "~id~">>,
     <<>>}
ScoredItems ==
    {("type" :> "command") @@ ("command" :> c) : c \in ScoredCommands}
    \cup {("type" :> "prompt") @@ ("prompt" :> q) :
             q \in LongPrompts \cup {"check the change", "is it safe", ""}}
    \cup {("type" :> "command"), ("type" :> "prompt"), ("type" :> "script"),
          ("command" :> <<"echo", "ok">>)}
ScoredGroups ==
    {m @@ h : m \in OptionalKey("matcher", {"", "Bash", "*"}),
              h \in OptionalKey("hooks", {<<it>> : it \in ScoredItems})}
\* n groups alike under one event
Crowd(event, g, n) == <<[event |-> event, groups |-> [i \in 1..n |-> g]]>>
ScoredConfigs ==
    {<<>>, ("hooks" :> <<>>)}
    \cup {doc @@ ("hooks" :> <<[event |-> e, groups |-> <<g>>]>>) :
             doc \in OptionalKey("_comment", {"hooks of the plugin"}),
             e \in {"PreToolUse", "Stop", "OnSave"}, g \in ScoredGroups}
    \cup {("hooks" :> Crowd(e, g, n)) :
             e \in {"PreToolUse", "OnSave"}, g \in ScoredGroups, n \in {MaxCrowd \div 2, MaxCrowd}}

HookFiles ==
    {[status |-> "ok", config |-> c, scripts |-> [exist |-> x, executable |-> x]] :
        c \in ScoredConfigs, x \in BOOLEAN}
    \cup {[status |-> "ok", config |-> c, scripts |-> [exist |-> TRUE, executable |-> FALSE]] :
             c \in {("hooks" :> <<[event |-> "Stop", groups |-> <<g>>]>>) : g \in ScoredGroups}}
    \cup {[status |-> st, config |-> <<>>, scripts |-> [exist |-> FALSE, executable |-> FALSE]] :
             st \in {"missing", "invalid"}}

InitEnhanceHook ==
    /\ enhanced \in HookFiles
    /\ report = NoReport
    /\ enhance_pc = "start"
    /\ enhance_exit = 0
    /\ ExceptEnhanceIdle

\* the findings that begin with the cross and CRITICAL; a finding about one
\* item begins with the cross and the item's place
CriticalTexts ==
    {"CRITICAL: Missing top-level 'hooks' field",
     "CRITICAL: Cannot analyze security without hooks",
     "CRITICAL: No hooks to analyze"}
HasCritical(r) ==
    \E c \in DOMAIN r : \E k \in DOMAIN r[c].findings :
        LET f == r[c].findings[k]
        IN  f.mark = "x" /\ (IF "text" \in DOMAIN f THEN f.text ELSE f.kind) \in CriticalTexts

\* enhance-hook.py, main: load, analyse, report, exit
EnhanceHook ==
    /\ enhance_pc = "start"
    /\ "config" \in DOMAIN enhanced
    /\ IF enhanced.status # "ok"
       THEN report' = NoReport /\ enhance_exit' = 1
       ELSE /\ report' = HookAnalyses(enhanced)
            /\ enhance_exit' = IF HasCritical(report') THEN 1 ELSE 0
    /\ enhance_pc' = "exit"
    /\ UNCHANGED enhanced
    /\ UNCHANGED exceptEnhance

SpecEnhanceHook == InitEnhanceHook /\ [][EnhanceHook]_vars

(***************************************************************************)
(* enhance-skill.py: the seven analyses of a skill directory.  The body is *)
(* a selection of the lines of SkillDocument; the tables say which lines   *)
(* each pattern of the analyses matches.                                   *)
(***************************************************************************)
SkillDocument ==
    <<"## When to Use", "## Capabilities", "## Example", "## Workflow", "### Notes",
      "- run {baseDir}/scripts/x.py automatically", "~~~bash",
      "**Input validation**: verify it", "(three hundred words of prose)",
      "(three thousand words of prose)">>

SkillWhenToUse == {"## When to Use"}              \* '## when to use', ##\s*when to use
SkillCapabilities == {"## Capabilities"}          \* ##\s*capabilit(?:y|ies)
SkillExample == {"## Example"}                    \* ##\s*example
SkillWorkflow == {"## Workflow"}                  \* ##\s*(?:workflow|how it works)
SkillHeading ==                                   \* ^#{1,3}\s+\w+
    {"## When to Use", "## Capabilities", "## Example", "## Workflow", "### Notes"}
SkillAuto == {"- run {baseDir}/scripts/x.py automatically"}     \* 'auto-invoke', 'automatically'
SkillBaseDir == {"- run {baseDir}/scripts/x.py automatically"}  \* '{baseDir}'
SkillValidation == {"**Input validation**: verify it"}          \* 'validation', 'sanitize'
SkillChecks == {"**Input validation**: verify it"}              \* 'validate', 'check', 'verify'
SkillList == {"- run {baseDir}/scripts/x.py automatically"}     \* ^\s*[-*]\s+
SkillFence == {"~~~bash"}                                       \* three backticks
SkillBold == {"**Input validation**: verify it"}                \* \*\*.*?\*\*
SkillInlineCode == {"~~~bash"}                                  \* a backtick, .*?, a backtick

\* len(line.split())
SkillWords(line) ==
    CASE line = "(three hundred words of prose)" -> 300
      [] line = "(three thousand words of prose)" -> 3000
      [] line = "## When to Use" -> 4
      [] line = "- run {baseDir}/scripts/x.py automatically" -> 4
      [] line = "**Input validation**: verify it" -> 4
      [] line = "~~~bash" -> 1
      [] OTHER -> 2

RECURSIVE SkillWordCount(_)
SkillWordCount(body) ==
    IF body = <<>> THEN 0 ELSE SkillWords(Head(body)) + SkillWordCount(Tail(body))

UseWhenDescription ==
    <<"u", "s", "e", " ", "w", "h", "e", "n", " ", "t", "h", "e", " ", "u",
      "s", "e", "r", " ", "a", "s", "k", "s", " ", "t", "o", " ", "b", "u",
      "i", "l", "d", " ", "a", " ", "p", "l", "u", "g", "i", "n">>
VagueDescription ==
    <<"h", "e", "l", "p", "s", " ", "w", "i", "t", "h", " ", "p", "l", "u",
      "g", "i", "n", "s", " ", "w", "h", "e", "n", " ", "n", "o", "t", "h",
      "i", "n", "g", " ", "e", "l", "s", "e", " ", "a", "p", "p", "l", "i",
      "e", "s">>
LongDescription == [i \in 1..1025 |-> "a"]
SemVer == {"1.0.0"}                               \* ^\d+\.\d+\.\d+

Phrase(desc, phrase) == Contains(LowerSeq(desc), phrase)
\* analyze_auto_invocation, trigger_phrases
HasTriggerPhrase(desc) ==
    \/ Phrase(desc, <<"a", "u", "t", "o", "-", "i", "n", "v", "o", "k", "e", "s", " ", "w", "h", "e", "n">>)
    \/ Phrase(desc, <<"u", "s", "e", " ", "w", "h", "e", "n">>)
    \/ Phrase(desc, <<"w", "h", "e", "n", " ", "t", "h", "e", " ", "u", "s", "e", "r">>)
    \/ Phrase(desc, <<"w", "h", "e", "n", " ", "u", "s", "e", "r">>)
    \/ Phrase(desc, <<"w", "h", "e", "n", "e", "v", "e", "r">>)
\* analyze_auto_invocation, vague_words
HasVagueWord(desc) ==
    \/ Phrase(desc, <<"h", "e", "l", "p", "s">>)
    \/ Phrase(desc, <<"a", "s", "s", "i", "s", "t", "s">>)
    \/ Phrase(desc, <<"p", "r", "o", "v", "i", "d", "e", "s">>)

skill_analyze_schema(fm, skill_name) ==
    LET described == "description" \in DOMAIN fm
        short == described /\ Len(fm["description"]) < 30
        long == described /\ Len(fm["description"]) > 1024
        score == (IF Len(skill_name) > NameLimit THEN 0 ELSE 2)
                 + (IF GerundForm(skill_name) THEN 1 ELSE 0)
                 + (IF "name" \in DOMAIN fm THEN 2 ELSE 0)
                 + (IF described THEN 3 ELSE 0)
                 + (IF described /\ ~short /\ ~long THEN 1 ELSE 0)
                 + (IF "version" \in DOMAIN fm THEN 1 ELSE 0)
                 + (IF "allowed-tools" \in DOMAIN fm THEN 1 ELSE 0)
    IN  Analysis(Least(score, 10),
            When(~MatchesLowerHyphen(skill_name),
                 Finding("warn", "Skill name doesn't follow lowercase-hyphen convention"))
            \o When(Len(skill_name) > NameLimit,
                    Finding("warn", "Skill name exceeds 64 character limit"))
            \o When(~GerundForm(skill_name), Finding("tip", "Consider gerund form"))
            \o When("name" \in DOMAIN fm /\ fm["name"] # skill_name,
                    Finding("warn", "Name doesn't match directory"))
            \o When("name" \notin DOMAIN fm, Finding("x", "Missing required 'name' field"))
            \o When(short, Finding("warn", "Description too short for skills"))
            \o When(long, Finding("warn", "Description exceeds 1024 character limit"))
            \o When(described /\ ~HasTrigger(fm["description"]),
                    Finding("warn", "Description should clearly state WHEN"))
            \o When(~described, Finding("x", "Missing required 'description' field"))
            \o When("version" \in DOMAIN fm /\ fm["version"] \notin SemVer,
                    Finding("tip", "Use semantic versioning")))

skill_analyze_model_field(fm) ==
    IF "model" \in DOMAIN fm
    THEN Analysis(0, <<Finding("x", "CRITICAL: Skills cannot have 'model' field")>>)
    ELSE Analysis(10, <<Finding("ok", "No model field")>>)

skill_analyze_auto_invocation(fm, body) ==
    LET description == Get(fm, "description", <<>>)
        has_triggers == HasTriggerPhrase(description)
        section == \E i \in DOMAIN body : body[i] \in SkillWhenToUse
        documented == \E i \in DOMAIN body : body[i] \in SkillAuto
    IN  Analysis(
          Least((IF has_triggers THEN 3 ELSE 0) + (IF section THEN 3 ELSE 0)
                  + (IF documented THEN 2 ELSE 0), 10),
          (IF has_triggers THEN <<Finding("ok", "Description clearly states when to auto-invoke")>>
           ELSE <<Finding("x", "Description doesn't clearly state WHEN to auto-invoke")>>)
          \o (IF section THEN <<Finding("ok", "Has 'When to Use' section")>>
              ELSE <<Finding("warn", "Missing 'When to Use' section")>>)
          \o (IF documented THEN <<Finding("ok", "Documents auto-invocation behavior")>>
              ELSE <<Finding("tip", "Consider documenting auto-invocation behavior")>>)
          \o When(HasVagueWord(description) /\ ~has_triggers,
                  Finding("warn", "Description is vague")))

\* dir is the skill directory: its visible subdirectories, whether a script
\* is not executable, whether references/ holds anything
skill_analyze_directory_structure(dir, body) ==
    LET valid_subdirs == {"scripts", "references", "assets", "templates"}
        scripts == "scripts" \in dir.subdirs
        based == \E i \in DOMAIN body : body[i] \in SkillBaseDir
        references == "references" \in dir.subdirs
        extras == "templates" \in dir.subdirs \/ "assets" \in dir.subdirs
    IN  Analysis(
          Least((IF scripts THEN 2 ELSE 0) + (IF scripts /\ based THEN 1 ELSE 0)
                  + (IF references THEN 2 ELSE 0) + (IF extras THEN 1 ELSE 0)
                  + (IF dir.subdirs = {} THEN 3 ELSE 0), 10),
          When(scripts, Finding("ok", "Has scripts/ directory"))
          \o When(scripts /\ based, Finding("ok", "Uses {baseDir} to reference scripts"))
          \o When(scripts /\ ~based,
                  Finding("warn", "Has scripts/ but doesn't use {baseDir} variable"))
          \o When(references, Finding("ok", "Has references/ directory"))
          \o When(extras, Finding("ok", "Has templates/ or assets/ directory"))
          \o When(dir.subdirs \ valid_subdirs # {}, Finding("warn", "Unexpected subdirectories"))
          \o When(scripts /\ dir.not_executable, Finding("warn", "script(s) not executable"))
          \o When(dir.subdirs = {}, Finding("ok", "Minimal structure (SKILL.md only)")))

skill_analyze_security(fm, body) ==
    LET given == "allowed-tools" \in DOMAIN fm
        bash == given /\ Mentions(fm["allowed-tools"], BashLike)
        undocumented == bash /\ ~\E i \in DOMAIN body : body[i] \in SkillValidation
        unchecked ==
            /\ given
            /\ Mentions(fm["allowed-tools"], WriteLike \cup EditLike)
            /\ ~\E i \in DOMAIN body : body[i] \in SkillChecks
        many == given /\ Len(fm["allowed-tools"].items) > 6
        penalty(cond, n) == IF cond THEN n ELSE 0
        found ==
            When(undocumented,
                 Finding("x", "Has Bash access without input validation documentation"))
            \o When(bash /\ ~undocumented,
                    Finding("warn", "Has Bash access - ensure validation is thorough"))
            \o When(unchecked, Finding("warn", "Has write access"))
            \o When(many, Finding("warn", "Many tools pre-approved"))
    IN  Analysis(
          Max(10 - penalty(bash, 2) - penalty(undocumented, 2) - penalty(unchecked, 1)
                 - penalty(many, 1), 0),
          found \o When(~Marked(found, {"warn", "x"}),
                        Finding("ok", "No security issues detected")))

skill_analyze_content_quality(body) ==
    LET has(lines) == \E i \in DOMAIN body : body[i] \in lines
        section(lines, name) ==
            IF has(lines) THEN <<Finding("ok", "Has section " \o name)>>
            ELSE <<Finding("warn", "Missing section " \o name)>>
        gain(lines) == IF has(lines) THEN 2 ELSE 0
        word_count == SkillWordCount(body)
    IN  Analysis(
          Least(gain(SkillWhenToUse) + gain(SkillCapabilities) + gain(SkillExample)
                  + gain(SkillWorkflow)
                  + (IF word_count < 200 \/ word_count > 3000 THEN 0 ELSE 2), 10),
          section(SkillWhenToUse, "when to use") \o section(SkillCapabilities, "capabilities")
            \o section(SkillExample, "examples") \o section(SkillWorkflow, "workflow")
            \o When(word_count < 200, Finding("warn", "Very brief content"))
            \o When(word_count > 3000, Finding("warn", "Very lengthy content")))

skill_analyze_maintainability(body, dir) ==
    LET has(lines) == \E i \in DOMAIN body : body[i] \in lines
        heading_count == Cardinality({i \in DOMAIN body : body[i] \in SkillHeading})
        referenced == "references" \in dir.subdirs /\ dir.references_filled
        found ==
            (IF heading_count >= 5 THEN <<>>
             ELSE IF heading_count >= 3
             THEN <<Finding("tip", "Could use more section headings")>>
             ELSE <<Finding("warn", "Add more headings to organize content")>>)
            \o When(~has(SkillList), Finding("tip", "Use lists for better readability"))
            \o When(~has(SkillFence), Finding("tip", "Add code examples in code blocks"))
            \o When(referenced, Finding("ok", "Has reference documentation"))
    IN  Analysis(
          Least((IF heading_count >= 5 THEN 3 ELSE IF heading_count >= 3 THEN 2 ELSE 1)
                  + (IF has(SkillList) THEN 2 ELSE 0)
                  + (IF has(SkillFence) THEN 2 ELSE 0)
                  + (IF has(SkillBold) THEN 1 ELSE 0)
                  + (IF has(SkillInlineCode) THEN 1 ELSE 0)
                  + (IF referenced THEN 1 ELSE 0), 10),
          found \o When(~Marked(found, {"warn"}),
                        Finding("ok", "Well-formatted and maintainable")))

\* main, "Run analyses"
SkillAnalyses(skill) ==
    [schema |-> skill_analyze_schema(skill.frontmatter, skill.skill_name),
     model_field |-> skill_analyze_model_field(skill.frontmatter),
     auto_invocation |-> skill_analyze_auto_invocation(skill.frontmatter, skill.body),
     directory |-> skill_analyze_directory_structure(skill.dir, skill.body),
     security |-> skill_analyze_security(skill.frontmatter, skill.body),
     content |-> skill_analyze_content_quality(skill.body),
     maintainability |-> skill_analyze_maintainability(skill.body, skill.dir)]

SkillScoreSum(r) ==
    r.schema.score + r.model_field.score + r.auto_invocation.score + r.directory.score
        + r.security.score + r.content.score + r.maintainability.score

SkillBodies ==
    {Concat([i \in DOMAIN SkillDocument |-> IF keep[i] THEN <<SkillDocument[i]>> ELSE <<>>]) :
        keep \in [DOMAIN SkillDocument -> BOOLEAN]}
FewSkillBodies == {<<>>, SkillDocument}
BuildingStem == <<"b", "u", "i", "l", "d", "i", "n", "g">>
SkillDir(subdirs, not_executable, references_filled) ==
    [subdirs |-> subdirs, not_executable |-> not_executable,
     references_filled |-> references_filled]
BareDir == SkillDir({}, FALSE, FALSE)
FullDir == SkillDir({"scripts", "references", "templates"}, FALSE, TRUE)
SkillDirs ==
    {SkillDir(subdirs, n, f) :
        subdirs \in SUBSET {"scripts", "references", "templates", "assets", "docs"},
        n \in BOOLEAN, f \in BOOLEAN}
ScoredSkill(found, skill_name, block, fm, body, dir) ==
    [found |-> found, skill_name |-> skill_name, block |-> block,
     frontmatter |-> fm, body |-> body, dir |-> dir]
ScoredSkills ==
    {ScoredSkill(TRUE, name, "mapping", n @@ d @@ v @@ m @@ a, body, dir) :
        name \in {GoodStem, BuildingStem, LongStem, <<"A", "_">>},
        n \in OptionalKey("name", {BuildingStem}),
        d \in OptionalKey("description",
                          {GoodDescription, UseWhenDescription, VagueDescription,
                           LongDescription}),
        v \in OptionalKey("version", {"1.0.0", "v1"}),
        m \in OptionalKey("model", {"haiku"}),
        a \in OptionalKey("allowed-tools",
                          {ToolStr(<<"Read">>), ToolStr(<<"Bash", "Write">>), ManyTools,
                           ToolList(<<"Bash">>)}),
        body \in FewSkillBodies, dir \in {BareDir}}
      \cup
    {ScoredSkill(TRUE, BuildingStem, "mapping", fm, body, dir) :
        fm \in {("name" :> BuildingStem) @@ ("description" :> UseWhenDescription)
                    @@ ("version" :> "1.0.0") @@ ("allowed-tools" :> ToolStr(<<"Read">>)),
                ("description" :> GoodDescription) @@ ("allowed-tools" :> ManyTools)},
        body \in SkillBodies, dir \in {BareDir, FullDir}}
      \cup
    {ScoredSkill(TRUE, BuildingStem, "mapping",
                 ("name" :> BuildingStem) @@ ("description" :> UseWhenDescription),
                 body, dir) :
        body \in FewSkillBodies, dir \in SkillDirs}
      \cup
    {ScoredSkill(found, GoodStem, block, <<>>, <<>>, BareDir) :
        found \in BOOLEAN, block \in {"no_frontmatter", "yaml_error", "empty"}}

InitEnhanceSkill ==
    /\ enhanced \in ScoredSkills
    /\ report = NoReport
    /\ enhance_pc = "start"
    /\ enhance_exit = 0
    /\ ExceptEnhanceIdle

\* What ends the run in an uncaught exception: metadata that decoded to
\* None ('name' in None), or allowed-tools given as a non-empty YAML list
\* (tools.split in analyze_security).
SkillRaises(skill) ==
    \/ skill.block = "empty"
    \/ /\ "allowed-tools" \in DOMAIN skill.frontmatter
       /\ skill.frontmatter["allowed-tools"].isList
       /\ skill.frontmatter["allowed-tools"].items # <<>>

\* enhance-skill.py, main: find, parse, analyse, report, exit
EnhanceSkill ==
    /\ enhance_pc = "start"
    /\ "skill_name" \in DOMAIN enhanced
    /\ IF ~enhanced.found \/ enhanced.block \in {"no_frontmatter", "yaml_error"}
       THEN enhance_pc' = "exit" /\ enhance_exit' = 1 /\ report' = NoReport
       ELSE IF SkillRaises(enhanced)
       THEN enhance_pc' = "crashed" /\ enhance_exit' = 1 /\ report' = NoReport
       ELSE /\ report' = SkillAnalyses(enhanced)
            /\ enhance_pc' = "exit"
            \* overall_score >= 6, overall_score being the sum over 7
            /\ enhance_exit' = IF SkillScoreSum(report') >= 6 * 7 THEN 0 ELSE 1
    /\ UNCHANGED enhanced
    /\ UNCHANGED exceptEnhance

(***************************************************************************)
(* The three enhance-* scripts side by side: a run analyses a command      *)
(* file, a hooks.json file or a skill.                                     *)
(***************************************************************************)
InitScores == InitEnhance \/ InitEnhanceHook \/ InitEnhanceSkill
ScoreCommand == "stem" \in DOMAIN enhanced /\ EnhanceCommand
NextScores == ScoreCommand \/ EnhanceHook \/ EnhanceSkill
SpecScores == InitScores /\ [][NextScores]_vars

\* C22: every per-category score of the enhance-command, enhance-hook and
\* enhance-skill analyses lies between 0 and 10, whatever the artifact:
\* penalties never take a score below 0, bonuses never take it above 10.
C22_ScoresWithinRange ==
    report # NoReport => \A c \in DOMAIN report : report[c].score \in 0..10

\* a hooks.json whose security penalties exceed 10 has been scored
C22_Witness ==
    /\ enhance_pc = "exit"
    /\ report # NoReport
    /\ "config" \in DOMAIN enhanced
    /\ Penalties(report["Security"].findings) > 10

(***************************************************************************)
(* Two migrate-command processes on the same command file.                 *)
(*                                                                         *)
(* Each process runs migrate_single_command.  The statements that touch    *)
(* the file system are separate steps: the read inside parse_command, the  *)
(* second read_text, the rename to .md.bak and the write_text.  Nothing in *)
(* the script locks the file, so the steps of the two processes interleave *)
(* freely.                                                                 *)
(***************************************************************************)
Procs == {1, 2}

\* What is at a path: nothing, or a file.  `fenced` says the text opens with
\* a ----delimited block, which is what parse_command's regex asks for.
Gone == [exists |-> FALSE]
CommandFile(fenced, fm, body) ==
    [exists |-> TRUE, fenced |-> fenced, frontmatter |-> fm, body |-> body]

\* parse_command: read_text, the regex, yaml.safe_load
race_parse_command(file) ==
    IF ~file.exists THEN [raised |-> "FileNotFoundError"]
    ELSE IF ~file.fenced THEN [raised |-> "ValueError"]
    ELSE [raised |-> "", frontmatter |-> file.frontmatter, body |-> file.body]

\* f"---\n{yaml_str}---\n{body}"
reconstruct_command(fm, body) == CommandFile(TRUE, fm, body)

\* A backup step that leaves the file where it was.
rename_keeps_source(src, dst, os) ==
    IF ~src.exists THEN [raised |-> "FileNotFoundError", src |-> src, dst |-> dst]
    ELSE IF os = "windows" /\ dst.exists
    THEN [raised |-> "FileExistsError", src |-> src, dst |-> dst]
    ELSE [raised |-> "", src |-> src, dst |-> src]

\* Path.rename: the source must exist; an existing destination is replaced,
\* except on Windows, where it is an error.
rename(src, dst, os) ==
    IF ~src.exists THEN [raised |-> "FileNotFoundError", src |-> src, dst |-> dst]
    ELSE IF os = "windows" /\ dst.exists
    THEN [raised |-> "FileExistsError", src |-> src, dst |-> dst]
    ELSE [raised |-> "", src |-> Gone, dst |-> src]

\* Command files the two processes can be started on.
RaceOriginals ==
    {CommandFile(TRUE, ("description" :> FixBug) @@ ("model" :> "sonnet"), "body"),
     CommandFile(TRUE, ("description" :> FixBug) @@ ("tools" :> ToolStr(<<"Bash">>)), "body"),
     CommandFile(TRUE, ("description" :> FixBug), "body"),
     CommandFile(FALSE, <<>>, "body")}
StaleBackup == CommandFile(TRUE, ("description" :> FixBug), "stale")

RaceLocals(dry) ==
    [dry_run |-> dry, frontmatter |-> <<>>, body |-> "",
     original_content |-> Gone, new_content |-> Gone, changes |-> <<>>]

InitRace ==
    /\ race_platform \in {"posix", "windows"}
    /\ race_original \in RaceOriginals
    /\ race_file = race_original
    /\ race_backup \in {Gone, StaleBackup}
    /\ race_locals \in [Procs -> {RaceLocals(dry) : dry \in BOOLEAN}]
    /\ race_pc = [p \in Procs |-> "parse"]
    /\ ExceptRaceIdle

\* frontmatter, body = parse_command(file_path), inside the try
RaceParse ==
    \E p \in Procs :
        /\ race_pc[p] = "parse"
        /\ LET r == race_parse_command(race_file)
           IN  IF r.raised # ""
               THEN /\ race_pc' = [race_pc EXCEPT ![p] = "parse_failed"]
                    /\ UNCHANGED race_locals
               ELSE /\ race_locals' = [race_locals EXCEPT
                            ![p].frontmatter = r.frontmatter,
                            ![p].body = r.body]
                    /\ race_pc' = [race_pc EXCEPT ![p] = "read"]
        /\ UNCHANGED <<race_platform, race_original, race_file, race_backup>>
        /\ UNCHANGED exceptRace

\* original_content = file_path.read_text(), inside the same try
RaceRead ==
    \E p \in Procs :
        /\ race_pc[p] = "read"
        /\ IF ~race_file.exists
           THEN /\ race_pc' = [race_pc EXCEPT ![p] = "parse_failed"]
                /\ UNCHANGED race_locals
           ELSE /\ race_locals' = [race_locals EXCEPT
                        ![p].original_content = race_file]
                /\ race_pc' = [race_pc EXCEPT ![p] = "migrate"]
        /\ UNCHANGED <<race_platform, race_original, race_file, race_backup>>
        /\ UNCHANGED exceptRace

\* apply_all_migrations, the early return, reconstruct_command, dry_run
RaceMigrate ==
    \E p \in Procs :
        /\ race_pc[p] = "migrate"
        /\ LET r == apply_all_migrations(race_locals[p].frontmatter)
           IN  IF r.changes = <<>>
               THEN /\ race_pc' = [race_pc EXCEPT ![p] = "up_to_date"]
                    /\ UNCHANGED race_locals
               ELSE /\ race_locals' = [race_locals EXCEPT
                            ![p].changes = r.changes,
                            ![p].new_content =
                                reconstruct_command(r.frontmatter,
                                                    race_locals[p].body)]
                    /\ race_pc' = [race_pc EXCEPT ![p] =
                            IF race_locals[p].dry_run THEN "dry_run" ELSE "confirm"]
        /\ UNCHANGED <<race_platform, race_original, race_file, race_backup>>
        /\ UNCHANGED exceptRace

\* confirm = input("Apply migration? (y/n): ")
RaceConfirm ==
    \E p \in Procs, confirm \in {"y", "n"} :
        /\ race_pc[p] = "confirm"
        /\ race_pc' = [race_pc EXCEPT ![p] =
                IF confirm = "y" THEN "rename" ELSE "skipped"]
        /\ UNCHANGED <<race_platform, race_original, race_file, race_backup,
                       race_locals>>
        /\ UNCHANGED exceptRace

\* file_path.rename(backup_path); nothing catches what it raises
RaceRename ==
    \E p \in Procs :
        /\ race_pc[p] = "rename"
        /\ LET r == rename(race_file, race_backup, race_platform)
           IN  /\ race_file' = r.src
               /\ race_backup' = r.dst
               /\ race_pc' = [race_pc EXCEPT ![p] =
                       IF r.raised # "" THEN r.raised ELSE "write"]
        /\ UNCHANGED <<race_platform, race_original, race_locals>>
        /\ UNCHANGED exceptRace

\* file_path.write_text(new_content)
RaceWrite ==
    \E p \in Procs :
        /\ race_pc[p] = "write"
        /\ race_file' = race_locals[p].new_content
        /\ race_pc' = [race_pc EXCEPT ![p] = "migrated"]
        /\ UNCHANGED <<race_platform, race_original, race_backup, race_locals>>
        /\ UNCHANGED exceptRace

NextRace ==
    \/ RaceParse
    \/ RaceRead
    \/ RaceMigrate
    \/ RaceConfirm
    \/ RaceRename
    \/ RaceWrite

SpecRace == InitRace /\ [][NextRace]_vars

RaceEnded ==
    \A p \in Procs :
        race_pc[p] \in {"parse_failed", "up_to_date", "dry_run", "skipped",
                        "migrated", "FileNotFoundError", "FileExistsError"}
\* the process parsed the file as it was before either process touched it
\* and went on to apply its migration
AppliedToOriginal(p) ==
    /\ race_locals[p].frontmatter = race_original.frontmatter
    /\ race_pc[p] \in {"migrated", "FileNotFoundError", "FileExistsError"}
OriginalLost == race_file # race_original /\ race_backup # race_original
RenameFailed(p) == race_pc[p] \in {"FileNotFoundError", "FileExistsError"}

\* C21: two migrate-command processes on the same command file are unsafe.
\* Whenever both have parsed the original file and both apply their
\* migration, the run ends with the original content in neither the command
\* file nor the .md.bak backup, or with a process stopped by the exception
\* of its rename (the file it is about to rename is missing, or, on Windows,
\* the backup the other process made is in the way).
C21_ConcurrentMigrationUnsafe ==
    (race_pc # <<>> /\ RaceEnded /\ \A p \in Procs : AppliedToOriginal(p))
        => (OriginalLost \/ \E p \in Procs : RenameFailed(p))

\* both processes report success and the original content is nowhere
C21_Witness ==
    /\ race_pc # <<>>
    /\ \A p \in Procs : race_pc[p] = "migrated" /\ AppliedToOriginal(p)
    /\ race_backup # StaleBackup
    /\ OriginalLost

====
